---- MODULE Spec2Model ----
(***************************************************************************)
(* Order / product synchronisation pipeline of the Shopify dashboard.      *)
(*                                                                         *)
(* The relational store is modelled as the handlers use it: tables are     *)
(* sets of rows with a primary key, an upsert is one atomic statement      *)
(* keyed on its onConflict columns, an update writes the named columns of  *)
(* the rows its filter selects.  The order-sync handler is a sequence of   *)
(* awaited calls; each awaited call is one step of an invocation.          *)
(***************************************************************************)
EXTENDS Integers, Sequences, FiniteSets, TLC

(***************************************************************************)
(* Bounds of the model.                                                    *)
(***************************************************************************)
\* latest value of the wall clock
MaxTime == 1
\* number of sync_logs rows that fresh runs may create
MaxLogs == 1
\* largest items_processed a caller is allowed to drive a log entry to
MaxItems == 2

(***************************************************************************)
(* Values.                                                                 *)
(***************************************************************************)
\* JS null / undefined of a string-valued or id-valued field
NULL == "null"
\* JS null of a timestamp column (completed_at: null, last_sync_at unset)
NoTime == -1

Times == 0..MaxTime

\* ids the external store assigns to its orders and products (JSON numbers)
ExtOrderIds == {1001, 1002}
ExtProductIds == {501}

\* opaque page_info tokens of the external store
Cursors == {"c1"}

\* the owner's connection row id
ConnId == "conn1"
UserId == "u1"

\* ids gen_random_uuid() hands out to sync_logs rows, in order of creation
LogName == <<"L1", "L2", "L3", "L4">>

LogIds == {LogName[n] : n \in 1..Len(LogName)}

Max(S) == CHOOSE x \in S : \A y \in S : y <= x

(***************************************************************************)
(* String(o.id): the decimal text of the provider's numeric id.            *)
(***************************************************************************)
StringOf(n) == ToString(n)

(***************************************************************************)
(* parseFloat on the decimal texts the external store sends, in cents.     *)
(***************************************************************************)
ParseFloat(s) ==
  CASE s = "0.00" -> 0
    [] s = "19.99" -> 1999
    [] s = "5.00" -> 500

\* JS truthiness of a string-or-null value ("" and null are falsy)
Truthy(s) == s # NULL /\ s # ""

(***************************************************************************)
(* External order records (the JSON the provider returns).                 *)
(***************************************************************************)
NoCustomer == [present |-> FALSE, email |-> NULL]

ExtOrder(id, fs) ==
  [id |-> id, total_price |-> "19.99", currency |-> NULL, email |-> NULL,
   customer |-> [present |-> TRUE, email |-> "a@x.io"],
   financial_status |-> "paid", fulfillment_status |-> fs,
   created_at |-> 0, line_items |-> [isArray |-> TRUE, items |-> <<"li1">>]]

FulfillmentValues == {NULL, "fulfilled"}

\* a page of the provider: per external id at most one record, in id order
RECURSIVE SeqOfIds(_)
SeqOfIds(S) ==
  IF S = {} THEN <<>>
  ELSE LET m == CHOOSE x \in S : \A y \in S : x <= y
       IN <<m>> \o SeqOfIds(S \ {m})

OrderPages(ids) ==
  UNION { { [k \in 1..Len(SeqOfIds(S)) |-> ExtOrder(SeqOfIds(S)[k], f[SeqOfIds(S)[k]])]
            : f \in [S -> FulfillmentValues] }
          : S \in SUBSET ids }

(***************************************************************************)
(* Mapping of an external order to the orders row shape.                   *)
(***************************************************************************)
MapOrder(connection_id, o) ==
  [connection_id |-> connection_id,
   order_id |-> StringOf(o.id),
   shopify_order_id |-> StringOf(o.id),
   total_price |-> IF Truthy(o.total_price) THEN ParseFloat(o.total_price) ELSE 0,
   currency |-> IF Truthy(o.currency) THEN o.currency ELSE "USD",
   customer_email |-> IF Truthy(o.email) THEN o.email
                      ELSE IF o.customer.present /\ Truthy(o.customer.email)
                           THEN o.customer.email ELSE NULL,
   financial_status |-> IF Truthy(o.financial_status) THEN o.financial_status ELSE NULL,
   fulfillment_status |-> IF Truthy(o.fulfillment_status) THEN o.fulfillment_status
                          ELSE "unfulfilled",
   order_date |-> o.created_at,
   customer |-> o.customer,
   line_items |-> IF o.line_items.isArray THEN o.line_items.items ELSE <<>>]

MapOrders(connection_id, page) ==
  [k \in 1..Len(page) |-> MapOrder(connection_id, page[k])]

(***************************************************************************)
(* The relational store: rows carry a primary key id.                      *)
(***************************************************************************)
NewRowId(tbl) == 1 + Max({r.id : r \in tbl} \cup {0})

WithId(row, id) == [c \in (DOMAIN row) \cup {"id"} |-> IF c = "id" THEN id ELSE row[c]]

WithoutId(r) == [c \in (DOMAIN r) \ {"id"} |-> r[c]]

\* variant: the conflict is detected on the whole row instead of the key columns
OrderConflictsWholeRow(tbl, row) == {r \in tbl : WithoutId(r) = row}

\* variant: a plain INSERT, no ON CONFLICT clause
InsertOrderRow(tbl, row) == tbl \cup {WithId(row, NewRowId(tbl))}

\* variant: ignoreDuplicates true, a conflicting row is left as it is
UpsertOrderRowIgnoreDuplicates(tbl, row) ==
  IF {r \in tbl : r.connection_id = row.connection_id /\ r.order_id = row.order_id} = {}
  THEN tbl \cup {WithId(row, NewRowId(tbl))}
  ELSE tbl

\* the rows of tbl an upserted order row conflicts with: onConflict 'connection_id,order_id'
OrderConflicts(tbl, row) ==
  {r \in tbl : r.connection_id = row.connection_id /\ r.order_id = row.order_id}

\* INSERT ... ON CONFLICT (connection_id, order_id) DO UPDATE SET <all columns> for one row
UpsertOrderRow(tbl, row) ==
  IF OrderConflicts(tbl, row) = {}
  THEN tbl \cup {WithId(row, NewRowId(tbl))}
  ELSE (tbl \ OrderConflicts(tbl, row))
         \cup {WithId(row, r.id) : r \in OrderConflicts(tbl, row)}

\* one statement for a batch whose rows have pairwise distinct keys: every row is
\* upserted against the table as the statement found it, and the rows it inserts take
\* consecutive new ids in the order of the batch
UpsertOrders(tbl, rows) ==
  LET stored(k) == UpsertOrderRow(tbl, rows[k])
      isNew == {k \in 1..Len(rows) : Cardinality(stored(k)) > Cardinality(tbl)}
      shift(k) == Cardinality({j \in isNew : j < k})
  IN (tbl \ UNION {tbl \ stored(k) : k \in 1..Len(rows)})
       \cup UNION { {IF k \in isNew THEN WithId(WithoutId(r), r.id + shift(k)) ELSE r
                      : r \in stored(k) \ tbl}
                    : k \in 1..Len(rows) }

(***************************************************************************)
(* State.                                                                  *)
(***************************************************************************)
VARIABLES
  now,          \* wall clock (new Date())
  connection,   \* the owner's shopify_connections row
  orders,       \* orders table
  products,     \* products table
  sync_logs,    \* sync_logs table
  nextLog,      \* number of sync_logs ids handed out so far
  inv,          \* in-flight sync-orders invocations, per serverless instance
  client,       \* AutoSyncService.syncConnection loop of the owner's browser
  shop,         \* ids of the orders the external store holds
  cron,         \* the sync-cron handler's walk through the owner's two triggers
  shopify_connections,  \* shopify_connections table, all owners
  fleet,        \* the sync-cron handler's run over all owners
  reply         \* the last answer of the connect and status endpoints

vars == <<now, connection, orders, products, sync_logs, nextLog, inv, client, shop, cron,
          shopify_connections, fleet, reply>>

(***************************************************************************)
(* sync_logs rows.                                                         *)
(***************************************************************************)
SyncType(mode) == IF mode = "manual" THEN "orders:manual" ELSE "orders:auto"

\* .insert({...}) of a fresh orders log; the other columns take their defaults
NewLogRow(id, conn, mode, t) ==
  [id |-> id, connection_id |-> conn.id, sync_type |-> SyncType(mode),
   status |-> "in_progress", items_processed |-> 0, started_at |-> t,
   completed_at |-> NoTime, error_message |-> NULL, cursor_state |-> NULL,
   created_by |-> conn.user_id]

\* .update(patch).eq('id', id): the named columns of the selected rows
UpdateById(tbl, id, patch) ==
  {IF r.id = id
   THEN [c \in DOMAIN r |-> IF c \in DOMAIN patch THEN patch[c] ELSE r[c]]
   ELSE r : r \in tbl}

\* variant: the stored count is never read back, the total restarts at 0
ReadItemsProcessedZero(tbl, id) == 0

\* .select('items_processed').eq('id', id).single(), then currentLog?.items_processed || 0
ReadItemsProcessed(tbl, id) ==
  IF \E r \in tbl : r.id = id
  THEN (CHOOSE r \in tbl : r.id = id).items_processed
  ELSE 0

\* variant: the page's count is stored instead of the running total
PageLogPatchNoTotal(readCount, newItemsCount, nextCursor, t) ==
  [items_processed |-> newItemsCount,
   status |-> IF Truthy(nextCursor) THEN "in_progress" ELSE "success",
   completed_at |-> IF Truthy(nextCursor) THEN NoTime ELSE t,
   cursor_state |-> IF Truthy(nextCursor) THEN nextCursor ELSE NULL]

\* variant: every persisted page completes the log entry
PageLogPatchAlwaysSuccess(readCount, newItemsCount, nextCursor, t) ==
  [items_processed |-> readCount + newItemsCount,
   status |-> "success",
   completed_at |-> t,
   cursor_state |-> IF Truthy(nextCursor) THEN nextCursor ELSE NULL]

\* the patch of step 7: running total, status and cursor of the page just persisted
PageLogPatch(readCount, newItemsCount, nextCursor, t) ==
  [items_processed |-> readCount + newItemsCount,
   status |-> IF Truthy(nextCursor) THEN "in_progress" ELSE "success",
   completed_at |-> IF Truthy(nextCursor) THEN NoTime ELSE t,
   cursor_state |-> IF Truthy(nextCursor) THEN nextCursor ELSE NULL]

\* variant: the failed upsert is recorded without a completion time
UpsertErrorPatchNoCompletion(message, t) ==
  [status |-> "error", error_message |-> message]

\* the patch written when the upsert fails
UpsertErrorPatch(message, t) ==
  [status |-> "error", error_message |-> message, completed_at |-> t]

\* the patch the browser loop writes from its catch block
ClientErrorPatch(message, t) ==
  [status |-> "error", error_message |-> message, completed_at |-> t]

(***************************************************************************)
(* The request to the external store (URLSearchParams of step 3).          *)
(***************************************************************************)
PageLimit == 250

\* variant: the incremental filter is applied to manual runs instead of auto runs
OrderParamsManualFilter(cursor, mode, last_sync_at) ==
  IF Truthy(cursor)
  THEN [limit |-> PageLimit, page_info |-> cursor, status |-> NULL,
        updated_at_min |-> NoTime, order |-> NULL]
  ELSE IF mode = "manual" /\ last_sync_at # NoTime
       THEN [limit |-> PageLimit, page_info |-> NULL, status |-> "any",
             updated_at_min |-> last_sync_at, order |-> "updated_at asc"]
       ELSE [limit |-> PageLimit, page_info |-> NULL, status |-> "any",
             updated_at_min |-> NoTime, order |-> NULL]

\* variant: the first-page filters are sent along with a cursor
OrderParamsCursorWithFilters(cursor, mode, last_sync_at) ==
  IF mode = "auto" /\ last_sync_at # NoTime
  THEN [limit |-> PageLimit, page_info |-> cursor, status |-> "any",
        updated_at_min |-> last_sync_at, order |-> "updated_at asc"]
  ELSE [limit |-> PageLimit, page_info |-> cursor, status |-> "any",
        updated_at_min |-> NoTime, order |-> NULL]

OrderParams(cursor, mode, last_sync_at) ==
  IF Truthy(cursor)
  THEN [limit |-> PageLimit, page_info |-> cursor, status |-> NULL,
        updated_at_min |-> NoTime, order |-> NULL]
  ELSE IF mode = "auto" /\ last_sync_at # NoTime
       THEN [limit |-> PageLimit, page_info |-> NULL, status |-> "any",
             updated_at_min |-> last_sync_at, order |-> "updated_at asc"]
       ELSE [limit |-> PageLimit, page_info |-> NULL, status |-> "any",
             updated_at_min |-> NoTime, order |-> NULL]

(***************************************************************************)
(* The Link header of a response: its comma separated parts, each with a   *)
(* rel and the page_info of its URL (NULL when the URL carries none).      *)
(***************************************************************************)
NoLink == <<>>

LinkPart(rel, page_info) == [rel |-> rel, page_info |-> page_info]

LinkHeaders ==
  {NoLink, <<LinkPart("previous", "c0")>>, <<LinkPart("next", NULL)>>}
    \cup {<<LinkPart("previous", "c0"), LinkPart("next", c)>> : c \in Cursors}

\* variant: the first part of the header is taken, whatever its rel
NextCursorAnyRel(link) == IF Len(link) > 0 THEN link[1].page_info ELSE NULL

\* linkHeader.split(',').find(p => p.includes('rel="next"')), then page_info=([^&>]+)
NextCursor(link) ==
  IF \E k \in 1..Len(link) : link[k].rel = "next"
  THEN LET k == CHOOSE j \in 1..Len(link) :
                   link[j].rel = "next" /\ \A h \in 1..(j - 1) : link[h].rel # "next"
       IN link[k].page_info
  ELSE NULL

(***************************************************************************)
(* Responses of the sync-orders endpoint.                                  *)
(***************************************************************************)
NoResponse == [status |-> 0, success |-> FALSE, processed |-> 0,
               next_cursor |-> NULL, sync_log_id |-> NULL, has_more |-> FALSE,
               error |-> NULL]

ErrorResponse(status, error) == [NoResponse EXCEPT !.status = status, !.error = error]

\* variant: the 200 answer does not hand the log id back
OkResponseNoLogId(processed, nextCursor, logId) ==
  [status |-> 200, success |-> TRUE, processed |-> processed,
   next_cursor |-> nextCursor, sync_log_id |-> NULL,
   has_more |-> Truthy(nextCursor), error |-> NULL]

OkResponse(processed, nextCursor, logId) ==
  [status |-> 200, success |-> TRUE, processed |-> processed,
   next_cursor |-> nextCursor, sync_log_id |-> logId,
   has_more |-> Truthy(nextCursor), error |-> NULL]

(***************************************************************************)
(* An invocation of the sync-orders handler: its position, who awaits its  *)
(* response, and the handler's local variables.                            *)
(***************************************************************************)
Slots == {"a"}

IdleInv ==
  [pc |-> "idle", caller |-> "direct", currentLogId |-> NULL,
   params |-> OrderParams(NULL, "manual", NoTime),
   page |-> <<>>, nextCursor |-> NULL, newItemsCount |-> 0, readCount |-> 0,
   response |-> NoResponse]

IdleClient == [pc |-> "idle", ordersLogId |-> NULL, nextCursor |-> NULL, err |-> NULL]

\* sync-cron's locals for the one owner: the orders answer j1 and the per-trigger results
IdleCron ==
  [pc |-> "idle", j1 |-> NoResponse, okOrders |-> FALSE, ordersItems |-> 0,
   j2 |-> [status |-> 0, success |-> FALSE, items_processed |-> 0, error |-> NULL],
   okProducts |-> FALSE, productsItems |-> 0]

\* sync-cron before a request: no owner list, no per-owner results, no answer
IdleFleet ==
  [pc |-> "idle", secret |-> "", method |-> "", provided |-> "",
   uniqueUsers |-> {}, step |-> <<>>, calls |-> {},
   j1 |-> <<>>, results |-> <<>>, totalOrders |-> 0, totalProducts |-> 0,
   response |-> [status |-> 0]]

NoReply == [endpoint |-> "", user_id |-> "", status |-> 0, success |-> FALSE]

Init ==
  /\ now = 0
  /\ connection \in {[id |-> ConnId, user_id |-> UserId, is_active |-> TRUE, last_sync_at |-> t]
                       : t \in {NoTime, 0}}
  /\ orders = {}
  /\ products = {}
  /\ sync_logs = {}
  /\ nextLog = 0
  /\ inv = [i \in Slots |-> IdleInv]
  /\ client = IdleClient
  /\ shop = {1001}
  /\ cron = IdleCron
  /\ shopify_connections = {}
  /\ fleet = IdleFleet
  /\ reply = NoReply

(***************************************************************************)
(* The clock.                                                              *)
(***************************************************************************)
Tick ==
  /\ now < MaxTime
  /\ now' = now + 1
  /\ UNCHANGED <<connection, orders, products, sync_logs, nextLog, inv, client, shop, cron, shopify_connections, fleet, reply>>

(***************************************************************************)
(* AutoSyncService.syncConnection, as far as a response changes its loop   *)
(* variables: a non-2xx response throws into the catch block, a 200        *)
(* records the log id of the first response and the next cursor; the loop  *)
(* ends when no cursor is returned.                                        *)
(***************************************************************************)
ClientOnResponse(c, resp) ==
  IF resp.status # 200
  THEN [c EXCEPT !.pc = "catch",
                 !.err = IF resp.status = 429 THEN "Sync API failed (429)"
                         ELSE "Sync API failed (500)"]
  ELSE IF Truthy(resp.next_cursor)
       THEN [c EXCEPT !.ordersLogId = IF ~Truthy(c.ordersLogId) /\ Truthy(resp.sync_log_id)
                                      THEN resp.sync_log_id ELSE c.ordersLogId,
                      !.nextCursor = resp.next_cursor,
                      !.pc = "loop"]
       ELSE IdleClient

\* j?.name of a JSON answer: undefined members read as 0 under Number(.. || 0)
NumberMember(resp, name) == IF name \in DOMAIN resp THEN resp[name] ELSE 0

\* sync-cron after the orders trigger answered: okOrders, ordersItems, then on to products
CronOnResponse(c, resp) ==
  [c EXCEPT !.pc = "products", !.j1 = resp,
            !.okOrders = (resp.status = 200 /\ resp.success),
            !.ordersItems = NumberMember(resp, "items_processed")]

\* res.status(..).json(..): the invocation ends and its caller sees the response
Respond(i, resp) ==
  /\ inv' = [inv EXCEPT ![i] = [IdleInv EXCEPT !.pc = "done", !.caller = inv[i].caller,
                                               !.currentLogId = inv[i].currentLogId,
                                               !.response = resp]]
  /\ client' = IF inv[i].caller = "client" THEN ClientOnResponse(client, resp) ELSE client
  /\ cron' = IF inv[i].caller = "cron" THEN CronOnResponse(cron, resp) ELSE cron

(***************************************************************************)
(* sync-orders handler, steps 1 to 3: the request arrives, the owner's     *)
(* active connection is read, a fresh run inserts its log row, and the     *)
(* request to the external store is built and sent.                        *)
(***************************************************************************)
\* variant: every invocation starts a new log row, whatever the request carries
IsFreshAlways(cursor, sync_log_id) == TRUE

IsFresh(cursor, sync_log_id) == ~Truthy(cursor) /\ ~Truthy(sync_log_id)

BeginWithin(maxLogs, i, caller, mode, cursor, sync_log_id) ==
  /\ inv[i].pc \in {"idle", "done"}
  /\ IsFresh(cursor, sync_log_id) => nextLog < maxLogs
  /\ \E dbOk \in BOOLEAN :
       IF ~connection.is_active
       THEN /\ dbOk
            /\ inv' = [inv EXCEPT ![i] =
                         [IdleInv EXCEPT !.pc = "done", !.caller = caller,
                            !.response =
                              ErrorResponse(400, "No active Shopify connection found")]]
            /\ UNCHANGED <<sync_logs, nextLog>>
       ELSE IF IsFresh(cursor, sync_log_id)
            THEN IF dbOk
                 THEN /\ sync_logs' = sync_logs \cup
                                        {NewLogRow(LogName[nextLog + 1], connection, mode, now)}
                      /\ nextLog' = nextLog + 1
                      /\ inv' = [inv EXCEPT ![i] =
                                   [IdleInv EXCEPT !.pc = "fetch", !.caller = caller,
                                      !.currentLogId = LogName[nextLog + 1],
                                      !.params = OrderParams(cursor, mode,
                                                             connection.last_sync_at)]]
                 ELSE /\ inv' = [inv EXCEPT ![i] =
                                   [IdleInv EXCEPT !.pc = "done", !.caller = caller,
                                      !.response =
                                        ErrorResponse(500, "Failed to create sync log")]]
                      /\ UNCHANGED <<sync_logs, nextLog>>
            ELSE /\ dbOk
                 /\ inv' = [inv EXCEPT ![i] =
                              [IdleInv EXCEPT !.pc = "fetch", !.caller = caller,
                                 !.currentLogId = sync_log_id,
                                 !.params = OrderParams(cursor, mode,
                                                        connection.last_sync_at)]]
                 /\ UNCHANGED <<sync_logs, nextLog>>

\* the request, fresh runs capped at MaxLogs log rows
Begin(i, caller, mode, cursor, sync_log_id) ==
  BeginWithin(MaxLogs, i, caller, mode, cursor, sync_log_id)

\* a request of any HTTP caller (scheduler, another tab, a retry): any cursor, any log id
DirectRequest(i) ==
  \E mode \in {"auto", "manual"}, cursor \in Cursors \cup {NULL},
     sync_log_id \in {r.id : r \in sync_logs} \cup {NULL} :
    /\ Begin(i, "direct", mode, cursor, sync_log_id)
    /\ UNCHANGED <<now, connection, orders, products, client, shop, cron, shopify_connections, fleet, reply>>

(***************************************************************************)
(* Step 4: the external store answers: a network failure, a 429, another   *)
(* non-2xx status, or a page of orders with a Link header.                 *)
(***************************************************************************)
FetchFailures == {"network", "429", "500"}

FetchFailureResponse(f) ==
  IF f = "429"
  THEN ErrorResponse(429, "Shopify API rate limit exceeded. Retry later.")
  ELSE IF f = "500" THEN ErrorResponse(500, "Shopify API error 500")
       ELSE ErrorResponse(500, "fetch failed")

\* variant: a failed fetch is recorded like an empty last page
FetchFailsCompletesLog(i) ==
  /\ inv[i].pc = "fetch"
  /\ \E f \in FetchFailures : Respond(i, FetchFailureResponse(f))
  /\ sync_logs' = UpdateById(sync_logs, inv[i].currentLogId,
                             PageLogPatch(ReadItemsProcessed(sync_logs, inv[i].currentLogId),
                                          0, NULL, now))
  /\ UNCHANGED <<now, connection, orders, products, nextLog, shop, shopify_connections, fleet, reply>>

FetchFails(i) ==
  /\ inv[i].pc = "fetch"
  /\ \E f \in FetchFailures : Respond(i, FetchFailureResponse(f))
  /\ UNCHANGED <<now, connection, orders, products, sync_logs, nextLog, shop, shopify_connections, fleet, reply>>

FetchPage(i) ==
  /\ inv[i].pc = "fetch"
  /\ \E page \in OrderPages(shop), link \in LinkHeaders :
       /\ ReadItemsProcessed(sync_logs, inv[i].currentLogId) + Len(page) <= MaxItems
       /\ inv' = [inv EXCEPT ![i].pc = "upsert", ![i].page = page,
                             ![i].nextCursor = NextCursor(link)]
  /\ UNCHANGED <<now, connection, orders, products, sync_logs, nextLog, client, shop, cron, shopify_connections, fleet, reply>>

(***************************************************************************)
(* Step 5: the page is mapped and upserted; a failed upsert marks the log  *)
(* row and ends the invocation.                                            *)
(***************************************************************************)
Upsert(i) ==
  /\ inv[i].pc = "upsert"
  /\ \E dbOk \in BOOLEAN :
       IF Len(inv[i].page) > 0 /\ ~dbOk
       THEN /\ sync_logs' = UpdateById(sync_logs, inv[i].currentLogId,
                                       UpsertErrorPatch("upsert failed", now))
            /\ Respond(i, ErrorResponse(500, "DB Upsert failed"))
            /\ UNCHANGED orders
       ELSE /\ dbOk
            /\ orders' = IF Len(inv[i].page) > 0
                         THEN UpsertOrders(orders, MapOrders(connection.id, inv[i].page))
                         ELSE orders
            /\ inv' = [inv EXCEPT ![i].pc = IF Truthy(inv[i].currentLogId)
                                            THEN "readlog" ELSE "lastsync",
                                  ![i].page = <<>>,
                                  ![i].newItemsCount = Len(inv[i].page)]
            /\ UNCHANGED <<sync_logs, client, cron>>
  /\ UNCHANGED <<now, connection, products, nextLog, shop, shopify_connections, fleet, reply>>

(***************************************************************************)
(* Step 7: read-modify-write of the log row.                               *)
(***************************************************************************)
ReadLog(i) ==
  /\ inv[i].pc = "readlog"
  /\ inv' = [inv EXCEPT ![i].pc = "updlog",
                        ![i].readCount = ReadItemsProcessed(sync_logs, inv[i].currentLogId)]
  /\ UNCHANGED <<now, connection, orders, products, sync_logs, nextLog, client, shop, cron, shopify_connections, fleet, reply>>

UpdateLog(i) ==
  /\ inv[i].pc = "updlog"
  /\ sync_logs' = UpdateById(sync_logs, inv[i].currentLogId,
                             PageLogPatch(inv[i].readCount, inv[i].newItemsCount,
                                          inv[i].nextCursor, now))
  /\ inv' = [inv EXCEPT ![i].pc = "lastsync", ![i].readCount = 0]
  /\ UNCHANGED <<now, connection, orders, products, nextLog, client, shop, cron, shopify_connections, fleet, reply>>

(***************************************************************************)
(* Step 8: the connection's last_sync_at is stamped when no cursor is      *)
(* left, and the page result is returned.                                  *)
(***************************************************************************)
\* variant: every answered page stamps the connection
StampsLastSyncAlways(nextCursor) == TRUE

StampsLastSync(nextCursor) == ~Truthy(nextCursor)

Finish(i) ==
  /\ inv[i].pc = "lastsync"
  /\ connection' = IF StampsLastSync(inv[i].nextCursor)
                   THEN [connection EXCEPT !.last_sync_at = now]
                   ELSE connection
  /\ Respond(i, OkResponse(inv[i].newItemsCount, inv[i].nextCursor, inv[i].currentLogId))
  /\ UNCHANGED <<now, orders, products, sync_logs, nextLog, shop, shopify_connections, fleet, reply>>

(***************************************************************************)
(* AutoSyncService.syncConnection: the chained orders loop of the browser. *)
(***************************************************************************)
ClientStart ==
  /\ client.pc = "idle"
  /\ client' = [IdleClient EXCEPT !.pc = "loop"]
  /\ UNCHANGED <<now, connection, orders, products, sync_logs, nextLog, inv, shop, cron, shopify_connections, fleet, reply>>

ClientSendWithin(maxLogs, i) ==
  /\ client.pc = "loop"
  /\ BeginWithin(maxLogs, i, "client", "auto", client.nextCursor, client.ordersLogId)
  /\ client' = IF inv'[i].pc = "done"
               THEN ClientOnResponse(client, inv'[i].response)
               ELSE [client EXCEPT !.pc = "await"]
  /\ UNCHANGED <<now, connection, orders, products, shop, cron, shopify_connections, fleet, reply>>

\* the loop's request, fresh runs capped at MaxLogs log rows
ClientSend(i) == ClientSendWithin(MaxLogs, i)

\* the browser's fetch rejects (connection lost, gateway timeout); the invocation goes on
ClientFetchThrows(i) ==
  /\ client.pc = "await"
  /\ inv[i].caller = "client"
  /\ inv[i].pc \notin {"idle", "done"}
  /\ inv' = [inv EXCEPT ![i].caller = "direct"]
  /\ client' = [client EXCEPT !.pc = "catch", !.err = "Failed to fetch"]
  /\ UNCHANGED <<now, connection, orders, products, sync_logs, nextLog, shop, cron, shopify_connections, fleet, reply>>

ClientCatch ==
  /\ client.pc = "catch"
  /\ sync_logs' = IF Truthy(client.ordersLogId)
                  THEN UpdateById(sync_logs, client.ordersLogId,
                                  ClientErrorPatch(client.err, now))
                  ELSE sync_logs
  /\ client' = IdleClient
  /\ UNCHANGED <<now, connection, orders, products, nextLog, inv, shop, cron, shopify_connections, fleet, reply>>

(***************************************************************************)
(* sync-products: the external product records, the internal cursor loop,  *)
(* the mapping and the upsert.                                             *)
(***************************************************************************)
\* JS null of a numeric column
NoNumber == NoTime

\* longest chain of product pages the provider serves for one invocation
MaxProductPages == 2

ExtProduct(id) ==
  [id |-> id, title |-> "Mug",
   variants |-> [isArray |-> TRUE,
                 items |-> <<[price |-> "5.00", inventory_quantity |-> 3]>>],
   images |-> [isArray |-> FALSE, items |-> <<>>]]

ProductPages ==
  { [k \in 1..Len(SeqOfIds(S)) |-> ExtProduct(SeqOfIds(S)[k])] : S \in SUBSET ExtProductIds }

\* one answer of the provider to a products request
ProductLinks == {NoLink} \cup {<<LinkPart("next", c)>> : c \in Cursors}

\* statuses of a failed products fetch: 429, another non-2xx, 0 for a rejected fetch
ProductFailureStatuses == {429, 500, 0}

ProductResponsesOf(failures) ==
  {[ok |-> FALSE, status |-> f, products |-> <<>>, link |-> NoLink] : f \in failures}
    \cup {[ok |-> TRUE, status |-> 200, products |-> pg, link |-> l]
            : pg \in ProductPages, l \in ProductLinks}

ProductResponses == ProductResponsesOf({500})

\* the answers the loop consumes: every answer but the last is ok and has a next cursor
ProductChainsOf(failures) ==
  UNION { {ch \in [1..n -> ProductResponsesOf(failures)] :
             /\ \A k \in 1..(n - 1) : ch[k].ok /\ Truthy(NextCursor(ch[k].link))
             /\ ~(ch[n].ok /\ Truthy(NextCursor(ch[n].link)))}
          : n \in 1..MaxProductPages }

ProductChains == ProductChainsOf({500})

\* err.message of the Error thrown for a failed products fetch
ProductFetchError(status) ==
  CASE status = 429 -> "Shopify API error 429"
    [] status = 0 -> "fetch failed"
    [] OTHER -> "Shopify API error 500"

\* variant: a failed page ends the loop with the pages fetched so far
RECURSIVE FetchAllShopifyProductsKeepsPages(_, _)
FetchAllShopifyProductsKeepsPages(chain, allProducts) ==
  IF ~Head(chain).ok
  THEN [ok |-> TRUE, products |-> allProducts, error |-> NULL]
  ELSE IF Truthy(NextCursor(Head(chain).link))
       THEN FetchAllShopifyProductsKeepsPages(Tail(chain),
                                              allProducts \o Head(chain).products)
       ELSE [ok |-> TRUE, products |-> allProducts \o Head(chain).products, error |-> NULL]

\* variant: the loop stops after the first answer instead of following the next link
FetchAllShopifyProductsFirstPage(chain, allProducts) ==
  IF ~Head(chain).ok
  THEN [ok |-> FALSE, products |-> <<>>, error |-> ProductFetchError(Head(chain).status)]
  ELSE [ok |-> TRUE, products |-> allProducts \o Head(chain).products, error |-> NULL]

\* fetchAllShopifyProducts: [ok, products, error]; ok is FALSE when a page's fetch throws
RECURSIVE FetchAllShopifyProducts(_, _)
FetchAllShopifyProducts(chain, allProducts) ==
  IF ~Head(chain).ok
  THEN [ok |-> FALSE, products |-> <<>>, error |-> ProductFetchError(Head(chain).status)]
  ELSE IF Truthy(NextCursor(Head(chain).link))
       THEN FetchAllShopifyProducts(Tail(chain), allProducts \o Head(chain).products)
       ELSE [ok |-> TRUE, products |-> allProducts \o Head(chain).products, error |-> NULL]

MapProduct(connection_id, p, t) ==
  LET hasMain == p.variants.isArray /\ Len(p.variants.items) > 0
      mainVariant == IF hasMain THEN p.variants.items[1]
                     ELSE [price |-> NULL, inventory_quantity |-> 0]
  IN [connection_id |-> connection_id,
      product_id |-> StringOf(p.id),
      shopify_product_id |-> StringOf(p.id),
      title |-> p.title,
      price |-> IF Truthy(mainVariant.price) THEN ParseFloat(mainVariant.price)
                ELSE NoNumber,
      inventory_quantity |-> mainVariant.inventory_quantity,
      images |-> IF p.images.isArray THEN p.images.items ELSE <<>>,
      variants |-> IF p.variants.isArray THEN p.variants.items ELSE <<>>,
      updated_at |-> t]

MapProducts(connection_id, ps, t) ==
  [k \in 1..Len(ps) |-> MapProduct(connection_id, ps[k], t)]

\* the rows of tbl an upserted product row conflicts with: onConflict 'connection_id,product_id'
ProductConflicts(tbl, row) ==
  {r \in tbl : r.connection_id = row.connection_id /\ r.product_id = row.product_id}

UpsertProductRow(tbl, row) ==
  IF ProductConflicts(tbl, row) = {}
  THEN tbl \cup {WithId(row, NewRowId(tbl))}
  ELSE (tbl \ ProductConflicts(tbl, row))
         \cup {WithId(row, r.id) : r \in ProductConflicts(tbl, row)}

RECURSIVE UpsertProducts(_, _)
UpsertProducts(tbl, rows) ==
  IF rows = <<>> THEN tbl
  ELSE UpsertProducts(UpsertProductRow(tbl, Head(rows)), Tail(rows))

\* one statement may not touch a row twice: the store rejects such a batch
BatchHasDuplicate(rows) ==
  \E j, k \in 1..Len(rows) :
    j # k /\ rows[j].connection_id = rows[k].connection_id
          /\ rows[j].product_id = rows[k].product_id

\* answers of the sync-products endpoint
ProductsErrorResponse(status, error) ==
  [status |-> status, success |-> FALSE, items_processed |-> 0, error |-> error]

ProductsOkResponse(items_processed) ==
  [status |-> 200, success |-> TRUE, items_processed |-> items_processed, error |-> NULL]

\* variant: the handler goes on without checking that the connection is active
SyncProductsResultAnyConnection(tbl, conn, chain, dbOk, t) ==
  LET got == FetchAllShopifyProducts(chain, <<>>)
      rows == MapProducts(conn.id, got.products, t)
  IN IF ~got.ok
     THEN [products |-> tbl, response |-> ProductsErrorResponse(500, got.error)]
     ELSE IF Len(rows) > 0 /\ (~dbOk \/ BatchHasDuplicate(rows))
          THEN [products |-> tbl,
                response |-> ProductsErrorResponse(500, "Failed to upsert products")]
          ELSE [products |-> IF Len(rows) > 0 THEN UpsertProducts(tbl, rows) ELSE tbl,
                response |-> ProductsOkResponse(Len(rows))]

\* the sync-products handler from request to response: the products table it leaves
\* and the answer it gives
SyncProductsResult(tbl, conn, chain, dbOk, t) ==
  IF ~conn.is_active
  THEN [products |-> tbl,
        response |-> ProductsErrorResponse(400, "No active Shopify connection found")]
  ELSE LET got == FetchAllShopifyProducts(chain, <<>>)
           rows == MapProducts(conn.id, got.products, t)
       IN IF ~got.ok
          THEN [products |-> tbl, response |-> ProductsErrorResponse(500, got.error)]
          ELSE IF Len(rows) > 0 /\ (~dbOk \/ BatchHasDuplicate(rows))
               THEN [products |-> tbl,
                     response |-> ProductsErrorResponse(500, "Failed to upsert products")]
               ELSE [products |-> IF Len(rows) > 0 THEN UpsertProducts(tbl, rows) ELSE tbl,
                     response |-> ProductsOkResponse(Len(rows))]

\* the whole sync-products handler
SyncProducts ==
  /\ connection.is_active
  /\ \E chain \in ProductChains, dbOk \in BOOLEAN :
       products' = SyncProductsResult(products, connection, chain, dbOk, now).products
  /\ UNCHANGED <<now, connection, orders, sync_logs, nextLog, inv, client, shop, cron, shopify_connections, fleet, reply>>

Next ==
  \/ Tick
  \/ \E i \in Slots : DirectRequest(i)
  \/ \E i \in Slots : FetchFails(i)
  \/ \E i \in Slots : FetchPage(i)
  \/ \E i \in Slots : Upsert(i)
  \/ \E i \in Slots : ReadLog(i)
  \/ \E i \in Slots : UpdateLog(i)
  \/ \E i \in Slots : Finish(i)
  \/ ClientStart
  \/ \E i \in Slots : ClientSend(i)
  \/ \E i \in Slots : ClientFetchThrows(i)
  \/ ClientCatch

Spec == Init /\ [][Next]_vars

(***************************************************************************)
(* The two sync endpoints called by any HTTP caller, in any order.         *)
(***************************************************************************)
NextTables ==
  \/ Tick
  \/ \E i \in Slots : DirectRequest(i)
  \/ \E i \in Slots : FetchFails(i)
  \/ \E i \in Slots : FetchPage(i)
  \/ \E i \in Slots : Upsert(i)
  \/ \E i \in Slots : ReadLog(i)
  \/ \E i \in Slots : UpdateLog(i)
  \/ \E i \in Slots : Finish(i)
  \/ SyncProducts

SpecTables == Init /\ [][NextTables]_vars

(***************************************************************************)
(* The order endpoint alone, against a store that holds two orders.        *)
(***************************************************************************)
InitOrders ==
  /\ now = 0
  /\ connection = [id |-> ConnId, user_id |-> UserId, is_active |-> TRUE,
                   last_sync_at |-> NoTime]
  /\ orders = {}
  /\ products = {}
  /\ sync_logs = {}
  /\ nextLog = 0
  /\ inv = [i \in Slots |-> IdleInv]
  /\ client = IdleClient
  /\ shop = ExtOrderIds
  /\ cron = IdleCron
  /\ shopify_connections = {}
  /\ fleet = IdleFleet
  /\ reply = NoReply

NextOrders ==
  \/ \E i \in Slots : DirectRequest(i)
  \/ \E i \in Slots : FetchFails(i)
  \/ \E i \in Slots : FetchPage(i)
  \/ \E i \in Slots : Upsert(i)
  \/ \E i \in Slots : ReadLog(i)
  \/ \E i \in Slots : UpdateLog(i)
  \/ \E i \in Slots : Finish(i)

SpecOrders == InitOrders /\ [][NextOrders]_vars

(***************************************************************************)
(* One sync-orders invocation from request to 200 response with no other   *)
(* operation in between: the handler's steps composed in program order.    *)
(***************************************************************************)
Database == [connection |-> connection, orders |-> orders, sync_logs |-> sync_logs,
             nextLog |-> nextLog]

RunPage(db, mode, cursor, sync_log_id, page, link, t) ==
  LET fresh == IsFresh(cursor, sync_log_id)
      currentLogId == IF fresh THEN LogName[db.nextLog + 1] ELSE sync_log_id
      logs1 == IF fresh THEN db.sync_logs \cup {NewLogRow(currentLogId, db.connection, mode, t)}
               ELSE db.sync_logs
      orders1 == IF Len(page) > 0
                 THEN UpsertOrders(db.orders, MapOrders(db.connection.id, page))
                 ELSE db.orders
      nextCursor == NextCursor(link)
      logs2 == IF Truthy(currentLogId)
               THEN UpdateById(logs1, currentLogId,
                               PageLogPatch(ReadItemsProcessed(logs1, currentLogId),
                                            Len(page), nextCursor, t))
               ELSE logs1
      conn1 == IF StampsLastSync(nextCursor)
               THEN [db.connection EXCEPT !.last_sync_at = t]
               ELSE db.connection
  IN [db |-> [connection |-> conn1, orders |-> orders1, sync_logs |-> logs2,
              nextLog |-> IF fresh THEN db.nextLog + 1 ELSE db.nextLog],
      response |-> OkResponse(Len(page), nextCursor, currentLogId)]

(***************************************************************************)
(* Properties.                                                             *)
(***************************************************************************)
LogRow(id) == CHOOSE r \in sync_logs : r.id = id

HasLog(id) == \E r \in sync_logs : r.id = id

C3_ResumeEquivalence ==
  (\A i \in Slots : inv[i].pc \in {"idle", "done"}) =>
  \A dataset \in OrderPages(ExtOrderIds), mode \in {"auto", "manual"}, c \in Cursors :
    \A k \in 0..Len(dataset) :
      LET first == RunPage(Database, mode, NULL, NULL, SubSeq(dataset, 1, k),
                           <<LinkPart("next", c)>>, now)
          second == RunPage(first.db, mode, first.response.next_cursor,
                            first.response.sync_log_id,
                            SubSeq(dataset, k + 1, Len(dataset)), NoLink, now)
          single == RunPage(Database, mode, NULL, NULL, dataset, NoLink, now)
      IN /\ second.db.orders = single.db.orders
         /\ second.response.sync_log_id = first.response.sync_log_id
         /\ ReadItemsProcessed(second.db.sync_logs, second.response.sync_log_id)
              = ReadItemsProcessed(single.db.sync_logs, single.response.sync_log_id)
         /\ ReadItemsProcessed(single.db.sync_logs, single.response.sync_log_id)
              = Len(dataset)

\* the second of two one-order pages of a run has been answered without a cursor:
\* two rows are persisted and the run's log entry counts two
C3_Witness ==
  \E i \in Slots :
    /\ inv[i].pc = "done"
    /\ inv[i].response.status = 200
    /\ inv[i].response.processed = 1
    /\ ~inv[i].response.has_more
    /\ HasLog(inv[i].response.sync_log_id)
    /\ LogRow(inv[i].response.sync_log_id).items_processed = 2
    /\ LogRow(inv[i].response.sync_log_id).status = "success"
    /\ Cardinality(orders) = 2

Terminal(r) == r.status \in {"success", "error"}

\* C4: a sync log entry whose status is success or error never later has status
\* in_progress, whatever cursor and log id later callers supply.
C4_TerminalNeverInProgress ==
  [][\A r \in sync_logs :
       Terminal(r) => \A r2 \in sync_logs' : r2.id = r.id => r2.status # "in_progress"]_vars

C6_TerminalImmutable ==
  [][\A r \in sync_logs :
       Terminal(r) =>
         \A r2 \in sync_logs' :
           r2.id = r.id =>
             /\ r2.status = r.status
             /\ r2.items_processed = r.items_processed
             /\ r2.completed_at = r.completed_at
             /\ r2.error_message = r.error_message]_vars

\* C7: a log entry becomes success only by the log update of a page that returned no
\* continuation cursor; the log update of a page that returned a cursor leaves the
\* entry in_progress and stores that cursor.
C7_SuccessOnlyWithoutCursor ==
  [][/\ \A i \in Slots :
          (inv[i].pc = "updlog" /\ inv'[i].pc = "lastsync") =>
            \A l \in sync_logs' :
              l.id = inv[i].currentLogId =>
                IF Truthy(inv[i].nextCursor)
                THEN l.status = "in_progress" /\ l.cursor_state = inv[i].nextCursor
                ELSE l.status = "success" /\ l.cursor_state = NULL
     /\ \A r \in sync_logs :
          \A r2 \in sync_logs' :
            (r2.id = r.id /\ r.status # "success" /\ r2.status = "success") =>
              \E i \in Slots : /\ inv[i].pc = "updlog"
                               /\ inv[i].currentLogId = r.id
                               /\ ~Truthy(inv[i].nextCursor)]_vars

\* a page that returned a cursor has just been recorded: in_progress, cursor stored
C7_Witness ==
  \E i \in Slots :
    /\ inv[i].pc = "lastsync"
    /\ inv[i].nextCursor = "c1"
    /\ inv[i].newItemsCount = 1
    /\ HasLog(inv[i].currentLogId)
    /\ LogRow(inv[i].currentLogId).status = "in_progress"
    /\ LogRow(inv[i].currentLogId).cursor_state = "c1"

UnrecoverableFetchErrors == {"Shopify API error 500", "fetch failed"}

\* C8: when the fetch of an order page fails with a non-2xx status other than 429 or
\* with a network error, the run's log entry is in status error once the invocation
\* has answered and its caller has handled the answer.
C8_FetchFailureMarksError ==
  \A i \in Slots :
    (/\ inv[i].pc = "done"
     /\ inv[i].response.error \in UnrecoverableFetchErrors
     /\ HasLog(inv[i].currentLogId)
     /\ client.pc = "idle")
      => LogRow(inv[i].currentLogId).status = "error"

\* C9: order sync changes the connection's last_sync_at only in the final step of an
\* invocation whose page returned no continuation cursor and that answers 200.
C9_LastSyncOnlyOnCompletion ==
  [][connection'.last_sync_at # connection.last_sync_at =>
       \E i \in Slots : /\ inv[i].pc = "lastsync"
                        /\ ~Truthy(inv[i].nextCursor)
                        /\ inv'[i].pc = "done"
                        /\ inv'[i].response.status = 200
                        /\ ~inv'[i].response.has_more]_vars

\* an invocation whose page had no cursor has stamped the connection with a new time
C9_Witness ==
  /\ connection.last_sync_at = 1
  /\ \E i \in Slots : /\ inv[i].pc = "done"
                      /\ inv[i].response.status = 200
                      /\ ~inv[i].response.has_more

\* C10: the first request of a fresh auto-mode run on a connection whose last_sync_at
\* is T asks for orders of any status with updated_at_min = T, and carries no cursor.
C10_FreshAutoFilter ==
  [][\A i \in Slots :
       (/\ inv[i].pc \in {"idle", "done"}
        /\ inv'[i].pc = "fetch"
        /\ nextLog' = nextLog + 1
        /\ \E l \in sync_logs' \ sync_logs : l.sync_type = "orders:auto"
        /\ connection.last_sync_at # NoTime)
         => /\ inv'[i].params.updated_at_min = connection.last_sync_at
            /\ inv'[i].params.page_info = NULL
            /\ inv'[i].params.status = "any"
            /\ inv'[i].params.limit = PageLimit]_vars

\* a fresh auto run is about to fetch with the filter set to a last_sync_at that an
\* earlier completed page stamped
C10_Witness ==
  \E i \in Slots :
    /\ inv[i].pc = "fetch"
    /\ connection.last_sync_at = 1
    /\ inv[i].params.updated_at_min = 1
    /\ HasLog(inv[i].currentLogId)
    /\ LogRow(inv[i].currentLogId).sync_type = "orders:auto"
    /\ LogRow(inv[i].currentLogId).items_processed = 0
    /\ LogRow(inv[i].currentLogId).status = "in_progress"

\* C11: when an auto-mode order run completes, the connection's last_sync_at is set
\* to the time at which the run started (started_at of its log entry).
C11_LastSyncIsRunStart ==
  [][\A i \in Slots :
       (/\ inv[i].pc = "lastsync"
        /\ inv'[i].pc = "done"
        /\ ~Truthy(inv[i].nextCursor)
        /\ HasLog(inv[i].currentLogId)
        /\ LogRow(inv[i].currentLogId).sync_type = "orders:auto"
        /\ LogRow(inv[i].currentLogId).status = "success")
         => connection'.last_sync_at = LogRow(inv[i].currentLogId).started_at]_vars

(***************************************************************************)
(* The external store serving a dataset under the request's limit, and a   *)
(* caller that feeds back each returned cursor and the log id until the    *)
(* answer carries no cursor.  The result is the sequence of the            *)
(* invocations' outcomes.                                                  *)
(***************************************************************************)
WideOrderIds == {1001, 1002, 1003}

LargeDataset(n) == [k \in 1..n |-> ExtOrder(1000 + k, NULL)]

RECURSIVE RunChain(_, _, _, _, _, _, _)
RunChain(db, mode, cursor, sync_log_id, rest, served, t) ==
  LET limit == OrderParams(cursor, mode, db.connection.last_sync_at).limit
      page == SubSeq(rest, 1, IF Len(rest) < limit THEN Len(rest) ELSE limit)
      link == IF Len(rest) > limit
              THEN <<LinkPart("next", ToString(served + Len(page)))>>
              ELSE NoLink
      r == RunPage(db, mode, cursor, sync_log_id, page, link, t)
  IN IF Truthy(r.response.next_cursor)
     THEN <<r>> \o RunChain(r.db, mode, r.response.next_cursor, r.response.sync_log_id,
                            SubSeq(rest, Len(page) + 1, Len(rest)),
                            served + Len(page), t)
     ELSE <<r>>

LogOf(logs, id) == CHOOSE r \in logs : r.id = id

NoInvocationRunning == \A i \in Slots : inv[i].pc \in {"idle", "done"}

\* C12: with no existing rows and n orders that fit one page, one fresh manual
\* invocation leaves exactly n orders rows, a log entry in status success with
\* items_processed = n, and a response without continuation cursor.
C12_FreshManualSinglePage ==
  (NoInvocationRunning /\ orders = {}) =>
    \A dataset \in OrderPages(WideOrderIds), link \in LinkHeaders :
      (\A k \in 1..Len(link) : ~(link[k].rel = "next" /\ Truthy(link[k].page_info))) =>
        LET r == RunPage(Database, "manual", NULL, NULL, dataset, link, now)
            log == LogOf(r.db.sync_logs, r.response.sync_log_id)
        IN /\ Cardinality(r.db.orders) = Len(dataset)
           /\ {row.order_id : row \in r.db.orders}
                = {StringOf(dataset[k].id) : k \in 1..Len(dataset)}
           /\ log.status = "success"
           /\ log.sync_type = "orders:manual"
           /\ log.items_processed = Len(dataset)
           /\ r.response.status = 200
           /\ r.response.processed = Len(dataset)
           /\ r.response.next_cursor = NULL
           /\ ~r.response.has_more

\* a fresh manual invocation has answered a two-order page without a cursor
C12_Witness ==
  \E i \in Slots :
    /\ inv[i].pc = "done"
    /\ inv[i].response.status = 200
    /\ inv[i].response.processed = 2
    /\ inv[i].response.next_cursor = NULL
    /\ HasLog(inv[i].response.sync_log_id)
    /\ LogRow(inv[i].response.sync_log_id).sync_type = "orders:manual"
    /\ LogRow(inv[i].response.sync_log_id).items_processed = 2
    /\ LogRow(inv[i].response.sync_log_id).status = "success"
    /\ {row.order_id : row \in orders} = {"1001", "1002"}

\* numbers of external orders above the page cap
LargeCounts == {251, 300}

\* C13: with N orders, N above the 250 page cap, the first invocation answers with a
\* cursor and 250 processed and leaves the log in_progress; after the caller has fed
\* back each cursor and the log id, the last invocation answers without cursor and
\* the log has items_processed = N and status success (the run starting on a store
\* without orders and without earlier log entries).
C13_PaginatedRun ==
  (NoInvocationRunning /\ orders = {} /\ nextLog = 0) =>
    \A n \in LargeCounts, mode \in {"auto", "manual"} :
      LET chain == RunChain(Database, mode, NULL, NULL, LargeDataset(n), 0, now)
          first == chain[1]
          last == chain[Len(chain)]
          id == first.response.sync_log_id
      IN /\ Truthy(first.response.next_cursor)
         /\ first.response.processed = PageLimit
         /\ \E r \in first.db.sync_logs : r.id = id
         /\ LogOf(first.db.sync_logs, id).status = "in_progress"
         /\ LogOf(first.db.sync_logs, id).items_processed = PageLimit
         /\ ~Truthy(last.response.next_cursor)
         /\ last.response.sync_log_id = id
         /\ LogOf(last.db.sync_logs, id).status = "success"
         /\ LogOf(last.db.sync_logs, id).items_processed = n
         /\ Cardinality(last.db.orders) = n

\* after an earlier cursor-only request stamped the connection, 300 orders take two
\* invocations: 250 processed with a cursor, then 50 without
C13_Witness ==
  /\ NoInvocationRunning
  /\ orders = {}
  /\ nextLog = 0
  /\ connection.last_sync_at # NoTime
  /\ LET chain == RunChain(Database, "manual", NULL, NULL, LargeDataset(300), 0, now)
     IN /\ Len(chain) = 2
        /\ chain[1].response.processed = 250
        /\ chain[1].response.has_more
        /\ chain[2].response.processed = 50
        /\ ~chain[2].response.has_more

SameOrderKey(tbl, row) ==
  {r \in tbl : r.connection_id = row.connection_id /\ r.order_id = row.order_id}

\* C14: when the upsert step observes an external order id that already has a row
\* for the connection, that single row is overwritten so that every mapped column
\* equals the mapping of the newly observed record, it keeps its primary key, and
\* the number of rows grows only by the ids that had no row.
C14_UpsertOverwrites ==
  [][\A i \in Slots :
       (inv[i].pc = "upsert" /\ inv'[i].pc \in {"readlog", "lastsync"}) =>
         LET rows == MapOrders(connection.id, inv[i].page)
         IN /\ \A k \in 1..Len(rows) :
                 SameOrderKey(orders, rows[k]) # {} =>
                   \E r \in orders :
                     /\ SameOrderKey(orders, rows[k]) = {r}
                     /\ SameOrderKey(orders', rows[k]) = {WithId(rows[k], r.id)}
            /\ Cardinality(orders')
                 = Cardinality(orders)
                     + Cardinality({k \in 1..Len(rows) : SameOrderKey(orders, rows[k]) = {}})]_vars

\* the second page of a run has just been upserted over the one row the first page
\* wrote: still one row, now fulfilled
C14_Witness ==
  \E i \in Slots :
    /\ inv[i].pc = "readlog"
    /\ inv[i].newItemsCount = 1
    /\ ReadItemsProcessed(sync_logs, inv[i].currentLogId) = 1
    /\ Cardinality(orders) = 1
    /\ \A r \in orders : r.id = 1 /\ r.fulfillment_status = "fulfilled"

(***************************************************************************)
(* deleteUserConnection, with the cleanup_user_data trigger that fires on  *)
(* its last statement.                                                     *)
(***************************************************************************)
\* the row the trigger inserts: INSERT INTO sync_logs (..) VALUES (NEW.id, 'cleanup', ..)
CleanupLogRow(id, connection_id, user_id, t) ==
  [id |-> id, connection_id |-> connection_id, sync_type |-> "cleanup",
   status |-> "success", items_processed |-> 0, started_at |-> t,
   completed_at |-> t,
   error_message |-> "User connection deactivated - data cleaned up",
   cursor_state |-> NULL, created_by |-> user_id]

\* .delete().eq('connection_id', id) / DELETE FROM .. WHERE connection_id = NEW.id
DeleteByConnection(tbl, connection_id) == {r \in tbl : r.connection_id # connection_id}

DeleteUserConnection ==
  /\ connection.is_active
  /\ orders' = DeleteByConnection(DeleteByConnection(orders, connection.id), connection.id)
  /\ sync_logs' = DeleteByConnection(DeleteByConnection(sync_logs, connection.id),
                                     connection.id)
                    \cup {CleanupLogRow(LogName[nextLog + 1], connection.id,
                                        connection.user_id, now)}
  /\ nextLog' = nextLog + 1
  /\ connection' = [connection EXCEPT !.is_active = FALSE]
  /\ UNCHANGED <<now, products, inv, client, shop, cron, shopify_connections, fleet, reply>>

NextLifecycle ==
  \/ \E i \in Slots : DirectRequest(i)
  \/ \E i \in Slots : FetchFails(i)
  \/ \E i \in Slots : FetchPage(i)
  \/ \E i \in Slots : Upsert(i)
  \/ \E i \in Slots : ReadLog(i)
  \/ \E i \in Slots : UpdateLog(i)
  \/ \E i \in Slots : Finish(i)
  \/ SyncProducts
  \/ DeleteUserConnection

SpecLifecycle == Init /\ [][NextLifecycle]_vars

\* C15: deactivating a connection leaves no orders row, no products row and none of
\* the earlier sync log entries of that connection, and adds exactly one new
\* terminal sync log entry recording the cleanup.
C15_DeactivationCascade ==
  [][(connection.is_active /\ ~connection'.is_active) =>
       /\ {r \in orders' : r.connection_id = connection.id} = {}
       /\ {r \in products' : r.connection_id = connection.id} = {}
       /\ \A l \in sync_logs : l.connection_id = connection.id =>
            ~\E l2 \in sync_logs' : l2.id = l.id
       /\ \E l \in sync_logs' :
            /\ Terminal(l)
            /\ l.sync_type = "cleanup"
            /\ {l2 \in sync_logs' : l2.connection_id = connection.id} = {l}]_vars

\* C16: an invocation whose fetch is answered 429 leaves every orders row as it was
\* and leaves the sync log entries, the run's own included, as they were: the run's
\* entry is not set to success.
C16_RateLimitLeavesData ==
  [][\A i \in Slots :
       (inv[i].pc = "fetch" /\ inv'[i].pc = "done" /\ inv'[i].response.status = 429) =>
         /\ orders' = orders
         /\ sync_logs' = sync_logs
         /\ connection' = connection]_vars

\* a later page of a run has been answered 429: the earlier page's row is persisted
\* and the run's log entry is still in_progress with its count and cursor
C16_Witness ==
  \E i \in Slots :
    /\ inv[i].pc = "done"
    /\ inv[i].response.status = 429
    /\ orders # {}
    /\ HasLog(inv[i].currentLogId)
    /\ LogRow(inv[i].currentLogId).status = "in_progress"
    /\ LogRow(inv[i].currentLogId).items_processed = 1
    /\ LogRow(inv[i].currentLogId).cursor_state = "c1"

(***************************************************************************)
(* sync-cron for the one owner: the manual orders trigger is called once   *)
(* with the owner's id only, then the products trigger is called once;     *)
(* a rejected call is caught and the handler goes on.                      *)
(***************************************************************************)
CronStart(i) ==
  /\ cron.pc \in {"idle", "returned"}
  /\ connection.is_active
  /\ Begin(i, "cron", "manual", NULL, NULL)
  /\ cron' = IF inv'[i].pc = "done"
             THEN CronOnResponse(IdleCron, inv'[i].response)
             ELSE [IdleCron EXCEPT !.pc = "orders"]
  /\ UNCHANGED <<now, connection, orders, products, client, shop, shopify_connections, fleet, reply>>

\* the cron's fetch of the orders trigger rejects; the invocation goes on
CronFetchThrows(i) ==
  /\ cron.pc = "orders"
  /\ inv[i].caller = "cron"
  /\ inv[i].pc \notin {"idle", "done"}
  /\ inv' = [inv EXCEPT ![i].caller = "direct"]
  /\ cron' = [cron EXCEPT !.pc = "products"]
  /\ UNCHANGED <<now, connection, orders, products, sync_logs, nextLog, client, shop, shopify_connections, fleet, reply>>

\* the products trigger runs; the cron sees its answer unless the call rejects
CronProducts ==
  /\ cron.pc = "products"
  /\ \E chain \in ProductChainsOf(ProductFailureStatuses), dbOk \in BOOLEAN,
        thrown \in BOOLEAN :
       LET res == SyncProductsResult(products, connection, chain, dbOk, now)
       IN /\ products' = res.products
          /\ cron' = IF thrown
                     THEN [cron EXCEPT !.pc = "returned"]
                     ELSE [cron EXCEPT !.pc = "returned", !.j2 = res.response,
                             !.okProducts = (res.response.status = 200
                                               /\ res.response.success),
                             !.productsItems =
                               NumberMember(res.response, "items_processed")]
  /\ UNCHANGED <<now, connection, orders, sync_logs, nextLog, inv, client, shop, shopify_connections, fleet, reply>>

NextCron ==
  \/ Tick
  \/ \E i \in Slots : CronStart(i)
  \/ \E i \in Slots : CronFetchThrows(i)
  \/ \E i \in Slots : FetchFails(i)
  \/ \E i \in Slots : FetchPage(i)
  \/ \E i \in Slots : Upsert(i)
  \/ \E i \in Slots : ReadLog(i)
  \/ \E i \in Slots : UpdateLog(i)
  \/ \E i \in Slots : Finish(i)
  \/ CronProducts
  \/ SyncProducts

SpecCron == Init /\ [][NextCron]_vars

(***************************************************************************)
(* C17: a 429 from the platform during an order sync or a product sync is  *)
(* answered to the trigger's caller with an outcome that differs from the  *)
(* one answered for any other upstream failure: the orders trigger answers *)
(* a status of its own for 429, and so does the products trigger, whatever *)
(* page of its loop the failure falls on.                                  *)
(***************************************************************************)
C17_RateLimitDistinct ==
  /\ \A f \in FetchFailures \ {"429"} :
       FetchFailureResponse("429").status # FetchFailureResponse(f).status
  /\ cron.pc = "products" =>
       \A limited, generic \in ProductChainsOf(ProductFailureStatuses) :
         ( /\ ~limited[Len(limited)].ok /\ limited[Len(limited)].status = 429
           /\ ~generic[Len(generic)].ok /\ generic[Len(generic)].status # 429 )
         => SyncProductsResult(products, connection, limited, TRUE, now).response.status
              # SyncProductsResult(products, connection, generic, TRUE, now).response.status

(***************************************************************************)
(* C18: the step on which the upsert of a page fails sets the run's log    *)
(* row (when the invocation has one) to error with the store's message and *)
(* the current time as completion time and leaves its count alone, answers *)
(* 500 without success and without a processed count, and leaves the       *)
(* orders table and the connection, last_sync_at included, as they were.   *)
(***************************************************************************)
C18_UpsertFailureMarksLog ==
  [][\A i \in Slots :
       (inv[i].pc = "upsert" /\ inv'[i].pc = "done") =>
         /\ inv'[i].response.status = 500
         /\ ~inv'[i].response.success
         /\ inv'[i].response.error = "DB Upsert failed"
         /\ inv'[i].response.processed = 0
         /\ connection' = connection
         /\ orders' = orders
         /\ \A r \in sync_logs : r.id = inv[i].currentLogId =>
              \E q \in sync_logs' :
                /\ q.id = r.id
                /\ q.status = "error"
                /\ q.error_message = "upsert failed"
                /\ q.completed_at = now
                /\ q.items_processed = r.items_processed]_vars

\* the upsert of a scheduled run's page has failed: its log row is error, stamped,
\* and the connection has never been stamped
C18_Witness ==
  \E i \in Slots :
    /\ inv[i].pc = "done"
    /\ inv[i].response.error = "DB Upsert failed"
    /\ HasLog(inv[i].currentLogId)
    /\ LogRow(inv[i].currentLogId).status = "error"
    /\ LogRow(inv[i].currentLogId).error_message = "upsert failed"
    /\ LogRow(inv[i].currentLogId).completed_at # NoTime
    /\ LogRow(inv[i].currentLogId).sync_type = "orders:auto"
    /\ connection.last_sync_at = NoTime

\* the last request of a products chain failed
ChainFails(chain) == ~chain[Len(chain)].ok

(***************************************************************************)
(* C19: the steps of an order invocation up to and including a failed      *)
(* fetch leave the orders and products tables as they were; and whenever   *)
(* the products trigger is about to run, every chain of page requests that *)
(* ends in a failure, on the first page or after pages already fetched,    *)
(* leaves the products table as it is and is answered as a failure.        *)
(***************************************************************************)
C19_FetchFailureLeavesTables ==
  [][/\ \A i \in Slots :
          ( \/ inv[i].pc \in {"idle", "done"} /\ inv'[i].pc = "fetch"
            \/ inv[i].pc = "fetch" /\ inv'[i].pc = "done" ) =>
            /\ orders' = orders
            /\ products' = products
     /\ cron.pc = "products" =>
          \A chain \in ProductChainsOf(ProductFailureStatuses), dbOk \in BOOLEAN :
            ChainFails(chain) =>
              /\ SyncProductsResult(products, connection, chain, dbOk, now).products
                   = products
              /\ ~SyncProductsResult(products, connection, chain, dbOk, now).response.success
     /\ (cron.pc = "products" /\ cron'.pc = "returned"
           /\ cron'.j2.error \in {ProductFetchError(f) : f \in ProductFailureStatuses}) =>
          /\ products' = products
          /\ orders' = orders]_vars

\* the scheduled run's order fetch and its product fetch have both failed and the
\* rows stored by earlier runs are still there
C19_Witness ==
  /\ cron.pc = "returned"
  /\ cron.j1.status \in {429, 500}
  /\ cron.j1.error # "DB Upsert failed"
  /\ cron.j2.error \in {ProductFetchError(f) : f \in ProductFailureStatuses}
  /\ products # {}

(***************************************************************************)
(* C20: once sync-cron has gone on from the orders trigger to the products *)
(* trigger after a successful orders answer, no continuation is left: the  *)
(* answer it holds carries no cursor and the run's log row is success with *)
(* no stored cursor.                                                       *)
(***************************************************************************)
C20_CronRunsOrdersToCompletion ==
  (cron.pc \in {"products", "returned"} /\ cron.okOrders) =>
    /\ ~Truthy(cron.j1.next_cursor)
    /\ ~cron.j1.has_more
    /\ HasLog(cron.j1.sync_log_id) =>
         /\ LogRow(cron.j1.sync_log_id).status = "success"
         /\ LogRow(cron.j1.sync_log_id).cursor_state = NULL

(***************************************************************************)
(* Several owners.  shopify_connections holds at most one row per owner    *)
(* (unique index on user_id); every owner's store holds the orders of      *)
(* shop and the products of ExtProductIds.                                 *)
(***************************************************************************)
Owners == {"u1", "u2"}

\* gen_random_uuid() of the owner's connection row
ConnIdOf(u) == IF u = "u1" THEN "conn1" ELSE "conn2"

StoreUrlOf(u) == <<"https://", IF u = "u1" THEN "a" ELSE "b", ".myshopify.com">>

ConnectionRow(u, store_url, is_active, connected_at, last_sync_at) ==
  [id |-> ConnIdOf(u), user_id |-> u, store_url |-> store_url, is_active |-> is_active,
   connected_at |-> connected_at, last_sync_at |-> last_sync_at]

\* .eq('user_id', user_id).eq('is_active', true)
ActiveConnections(tbl, u) == {r \in tbl : r.user_id = u /\ r.is_active}

\* the tables as one invocation for the connection row conn sees them
DatabaseOf(conn) ==
  [connection |-> conn, orders |-> orders, sync_logs |-> sync_logs, nextLog |-> nextLog]

(***************************************************************************)
(* A fresh sync-orders invocation (no cursor, no log id) from request to   *)
(* response: the log insert fails, the fetch fails after the log row was   *)
(* inserted, the upsert fails and marks the log row, or the page goes      *)
(* through.                                                                *)
(***************************************************************************)
FreshSyncOrdersResults(db, mode, ids, t) ==
  LET id == LogName[db.nextLog + 1]
      logged == [db EXCEPT !.sync_logs = db.sync_logs \cup {NewLogRow(id, db.connection, mode, t)},
                           !.nextLog = db.nextLog + 1]
  IN {[db |-> db, response |-> ErrorResponse(500, "Failed to create sync log")]}
       \cup {[db |-> logged, response |-> FetchFailureResponse(f)] : f \in FetchFailures}
       \cup {[db |-> [logged EXCEPT !.sync_logs =
                        UpdateById(logged.sync_logs, id, UpsertErrorPatch("upsert failed", t))],
              response |-> ErrorResponse(500, "DB Upsert failed")]
               : page \in {pg \in OrderPages(ids) : Len(pg) > 0}}
       \cup {RunPage(db, mode, NULL, NULL, page, link, t)
               : page \in OrderPages(ids), link \in LinkHeaders}

(***************************************************************************)
(* sync-cron over all owners.                                              *)
(***************************************************************************)
CronSecrets == {"", "s3cret"}

Tokens == {"", "s3cret", "wrong"}

Methods == {"POST", "GET"}

\* the six places a request can carry the token
CronRequests ==
  [method : Methods, CRON_SECRET : Tokens, cron_token : Tokens, x_cron_token : Tokens,
   x_cron_secret : Tokens, cron_secret : Tokens, query_cron_token : Tokens]

\* the first non-empty of: body CRON_SECRET, body cron_token, the three headers, the query
Provided(req) ==
  IF Truthy(req.CRON_SECRET) THEN req.CRON_SECRET
  ELSE IF Truthy(req.cron_token) THEN req.cron_token
  ELSE IF Truthy(req.x_cron_token) THEN req.x_cron_token
  ELSE IF Truthy(req.x_cron_secret) THEN req.x_cron_secret
  ELSE IF Truthy(req.cron_secret) THEN req.cron_secret
  ELSE IF Truthy(req.query_cron_token) THEN req.query_cron_token
  ELSE ""

\* variant: an empty configured secret is compared like any other
UnauthorizedEmptySecretPasses(secret, provided) == provided # secret

\* !secret || provided !== secret
Unauthorized(secret, provided) == ~Truthy(secret) \/ provided # secret

\* variant: the owners of all rows, active or not
UniqueUsersAnyRow(tbl) == {r.user_id : r \in tbl}

\* Array.from(new Set(connections.map(c => c.user_id))) over the active rows
UniqueUsers(tbl) == {r.user_id : r \in {c \in tbl : c.is_active}}

NoStatus == [ok |-> FALSE, items_processed |-> 0]

\* the request arrives: method, secret, then the active connections are loaded
CronRequest ==
  /\ fleet.pc = "idle"
  /\ \E req \in CronRequests, dbOk \in BOOLEAN :
       LET got == [fleet EXCEPT !.method = req.method, !.provided = Provided(req)]
       IN fleet' =
            IF req.method # "POST"
            THEN [got EXCEPT !.pc = "returned",
                             !.response = [status |-> 405, error |-> "Method not allowed"]]
            ELSE IF Unauthorized(fleet.secret, Provided(req))
            THEN [got EXCEPT !.pc = "returned",
                             !.response = [status |-> 401,
                                           error |-> "Unauthorized cron access"]]
            ELSE IF ~dbOk
            THEN [got EXCEPT !.pc = "returned",
                             !.response = [status |-> 500,
                                           error |-> "Failed to load connections"]]
            ELSE [got EXCEPT !.pc = "running",
                    !.uniqueUsers = UniqueUsers(shopify_connections),
                    !.step = [u \in UniqueUsers(shopify_connections) |-> "orders"],
                    !.j1 = [u \in UniqueUsers(shopify_connections) |-> NoResponse],
                    !.results = [u \in UniqueUsers(shopify_connections) |->
                                   [user_id |-> u, orders |-> NoStatus,
                                    products |-> NoStatus]]]
  /\ UNCHANGED <<now, connection, orders, products, sync_logs, nextLog, inv, client, shop,
                 cron, shopify_connections, reply>>

\* one owner's orders call: the trigger runs; the answer is read unless the call rejects
CronOrders(u) ==
  /\ fleet.pc = "running"
  /\ u \in fleet.uniqueUsers
  /\ fleet.step[u] = "orders"
  /\ \E thrown \in BOOLEAN :
       IF ActiveConnections(shopify_connections, u) = {}
       THEN /\ fleet' = [fleet EXCEPT !.step[u] = "products",
                           !.calls = @ \cup {<<u, "sync-orders">>},
                           !.j1[u] = IF thrown THEN @
                                     ELSE ErrorResponse(400, "No active Shopify connection found")]
            /\ UNCHANGED <<orders, sync_logs, nextLog, shopify_connections>>
       ELSE \E conn \in ActiveConnections(shopify_connections, u) :
              \E r \in FreshSyncOrdersResults(DatabaseOf(conn), "manual", shop, now) :
                /\ r.db.nextLog <= Len(LogName) - 1
                /\ orders' = r.db.orders
                /\ sync_logs' = r.db.sync_logs
                /\ nextLog' = r.db.nextLog
                /\ shopify_connections' = (shopify_connections \ {conn}) \cup {r.db.connection}
                /\ fleet' =
                     IF thrown
                     THEN [fleet EXCEPT !.step[u] = "products",
                                        !.calls = @ \cup {<<u, "sync-orders">>}]
                     ELSE LET okOrders == r.response.status = 200 /\ r.response.success
                              ordersItems == NumberMember(r.response, "items_processed")
                          IN [fleet EXCEPT !.step[u] = "products",
                                !.calls = @ \cup {<<u, "sync-orders">>},
                                !.j1[u] = r.response,
                                !.results[u].orders =
                                  [ok |-> okOrders, items_processed |-> ordersItems],
                                !.totalOrders = IF okOrders THEN @ + ordersItems ELSE @]
  /\ UNCHANGED <<now, connection, products, inv, client, shop, cron, reply>>

\* one owner's products call
CronProductsOf(u) ==
  /\ fleet.pc = "running"
  /\ u \in fleet.uniqueUsers
  /\ fleet.step[u] = "products"
  /\ \E thrown \in BOOLEAN, chain \in ProductChainsOf(ProductFailureStatuses),
        dbOk \in BOOLEAN :
       LET conns == ActiveConnections(shopify_connections, u)
           conn == IF conns = {} THEN ConnectionRow(u, <<>>, FALSE, NoTime, NoTime)
                   ELSE CHOOSE c \in conns : TRUE
           res == SyncProductsResult(products, conn, chain, dbOk, now)
           okProducts == res.response.status = 200 /\ res.response.success
           productsItems == NumberMember(res.response, "items_processed")
       IN /\ products' = res.products
          /\ fleet' =
               IF thrown
               THEN [fleet EXCEPT !.step[u] = "done",
                                  !.calls = @ \cup {<<u, "sync-products">>}]
               ELSE [fleet EXCEPT !.step[u] = "done",
                       !.calls = @ \cup {<<u, "sync-products">>},
                       !.results[u].products =
                         [ok |-> okProducts, items_processed |-> productsItems],
                       !.totalProducts = IF okProducts THEN @ + productsItems ELSE @]
  /\ UNCHANGED <<now, connection, orders, sync_logs, nextLog, inv, client, shop, cron,
                 shopify_connections, reply>>

\* Promise.all has settled: the aggregate answer
CronReturn ==
  /\ fleet.pc = "running"
  /\ \A u \in fleet.uniqueUsers : fleet.step[u] = "done"
  /\ fleet' = [fleet EXCEPT !.pc = "returned",
                 !.response = [status |-> 200, success |-> TRUE,
                               users_processed |-> Cardinality(DOMAIN fleet.results),
                               orders_synced |-> fleet.totalOrders,
                               products_synced |-> fleet.totalProducts,
                               statuses |-> fleet.results]]
  /\ UNCHANGED <<now, connection, orders, products, sync_logs, nextLog, inv, client, shop,
                 cron, shopify_connections, reply>>

\* the connection tables the fleet can start from: per owner no row, an active row or
\* an inactive row
FleetTables ==
  {{ConnectionRow(u, StoreUrlOf(u), has[u] = "active", 0, NoTime)
      : u \in {o \in Owners : has[o] # "none"}}
     : has \in [Owners -> {"none", "active", "inactive"}]}

InitFleet ==
  /\ now = 0
  /\ connection = [id |-> ConnId, user_id |-> UserId, is_active |-> TRUE,
                   last_sync_at |-> NoTime]
  /\ orders = {}
  /\ products = {}
  /\ sync_logs = {}
  /\ nextLog = 0
  /\ inv = [i \in Slots |-> IdleInv]
  /\ client = IdleClient
  /\ shop = {1001}
  /\ cron = IdleCron
  /\ shopify_connections \in FleetTables
  /\ \E s \in CronSecrets : fleet = [IdleFleet EXCEPT !.secret = s]
  /\ reply = NoReply

NextFleet ==
  \/ CronRequest
  \/ \E u \in Owners : CronOrders(u)
  \/ \E u \in Owners : CronProductsOf(u)
  \/ CronReturn

SpecFleet == InitFleet /\ [][NextFleet]_vars

(***************************************************************************)
(* C21: when sync-cron answers 200, its per-owner list has exactly one     *)
(* entry for every owner with an active connection, and both triggers were *)
(* called for each of them, whatever the other owners' calls came to.      *)
(***************************************************************************)
C21_CronCoversEveryOwner ==
  (fleet.pc = "returned" /\ fleet.response.status = 200) =>
    LET active == {u \in Owners : ActiveConnections(shopify_connections, u) # {}}
    IN /\ DOMAIN fleet.response.statuses = active
       /\ fleet.response.users_processed = Cardinality(active)
       /\ \A u \in active :
            /\ fleet.response.statuses[u].user_id = u
            /\ <<u, "sync-orders">> \in fleet.calls
            /\ <<u, "sync-products">> \in fleet.calls

\* both of the first owner's calls failed and both of the second owner's succeeded
C21_Witness ==
  /\ fleet.pc = "returned"
  /\ fleet.response.status = 200
  /\ DOMAIN fleet.response.statuses = Owners
  /\ ~fleet.response.statuses["u1"].orders.ok
  /\ ~fleet.response.statuses["u1"].products.ok
  /\ fleet.response.statuses["u2"].orders.ok
  /\ fleet.response.statuses["u2"].products.ok
  /\ \E r \in orders : r.connection_id = ConnIdOf("u2")

(***************************************************************************)
(* C22 as stated: sync-cron goes on to read the connections only when the  *)
(* token of the request equals a non-empty configured secret; every other  *)
(* request is answered 401 Unauthorized and reads and syncs nothing.       *)
(***************************************************************************)
C22_OnlyWithSecretElseUnauthorized ==
  [][(fleet.pc = "idle" /\ fleet'.pc # "idle") =>
       IF Truthy(fleet.secret) /\ fleet'.provided = fleet.secret
       THEN fleet'.pc = "running" \/ fleet'.response.status = 500
       ELSE /\ fleet'.pc = "returned"
            /\ fleet'.response.status = 401
            /\ fleet'.calls = {}
            /\ fleet'.uniqueUsers = {}]_vars

(***************************************************************************)
(* C22, amended: a request that is not a POST is answered 405 whatever its *)
(* token; a POST goes on to read the connections exactly when the          *)
(* configured secret is non-empty and the request's token (the first       *)
(* non-empty of its six places) equals it, and is answered 401 otherwise;  *)
(* a request answered 405 or 401 reads no connection, calls no trigger and *)
(* changes no table, and triggers are only ever called by a run that       *)
(* passed the check.                                                       *)
(***************************************************************************)
C22_SecretGuardsCron ==
  [][/\ (fleet.pc = "idle" /\ fleet'.pc # "idle") =>
          IF fleet'.method # "POST"
          THEN /\ fleet'.pc = "returned"
               /\ fleet'.response.status = 405
               /\ fleet'.calls = {} /\ fleet'.uniqueUsers = {}
               /\ UNCHANGED <<orders, products, sync_logs, shopify_connections>>
          ELSE IF Truthy(fleet.secret) /\ fleet'.provided = fleet.secret
          THEN fleet'.pc = "running" \/ fleet'.response.status = 500
          ELSE /\ fleet'.pc = "returned"
               /\ fleet'.response.status = 401
               /\ fleet'.calls = {} /\ fleet'.uniqueUsers = {}
               /\ UNCHANGED <<orders, products, sync_logs, shopify_connections>>
     /\ fleet'.calls # fleet.calls =>
          /\ fleet.pc = "running"
          /\ fleet.method = "POST"
          /\ Truthy(fleet.secret)
          /\ fleet.provided = fleet.secret]_vars

\* a POST carrying the configured secret has run and synced an owner's orders
C22_Witness ==
  /\ fleet.pc = "returned"
  /\ fleet.response.status = 200
  /\ fleet.secret = "s3cret"
  /\ fleet.provided = "s3cret"
  /\ fleet.calls # {}
  /\ orders # {}

(***************************************************************************)
(* C23: the orders_synced total of a 200 answer of sync-cron is the sum,   *)
(* over the owners whose orders call succeeded, of the processed counts    *)
(* the orders trigger answered.                                            *)
(***************************************************************************)
C23_OrdersTotalIsSumOfProcessed ==
  (fleet.pc = "returned" /\ fleet.response.status = 200) =>
    LET processedOf(u) ==
          IF u \in DOMAIN fleet.response.statuses /\ fleet.response.statuses[u].orders.ok
          THEN fleet.j1[u].processed ELSE 0
    IN fleet.response.orders_synced = processedOf("u1") + processedOf("u2")

(***************************************************************************)
(* C24: while the owner has no active connection, a sync-orders request    *)
(* that arrives is answered 400 "No active Shopify connection found" at    *)
(* once: no log row is inserted, no request to the store is prepared, and  *)
(* no table changes; and the sync-products handler, whatever the store     *)
(* would answer, gives the same 400 and leaves the products table as it    *)
(* is.                                                                     *)
(***************************************************************************)
C24_NoConnectionNoEffect ==
  [][~connection.is_active =>
       /\ \A i \in Slots :
            (inv[i].pc \in {"idle", "done"} /\ inv'[i] # inv[i]) =>
              /\ inv'[i].pc = "done"
              /\ inv'[i].response.status = 400
              /\ inv'[i].response.error = "No active Shopify connection found"
              /\ UNCHANGED <<orders, products, sync_logs, nextLog, connection>>
       /\ \A chain \in ProductChainsOf(ProductFailureStatuses), dbOk \in BOOLEAN :
            LET res == SyncProductsResult(products, connection, chain, dbOk, now)
            IN /\ res.products = products
               /\ res.response.status = 400
               /\ res.response.error = "No active Shopify connection found"
               /\ ~res.response.success]_vars

\* after the connection was deactivated a sync-orders request has been answered 400,
\* with product rows of earlier syncs still stored
C24_Witness ==
  /\ ~connection.is_active
  /\ products # {}
  /\ \E i \in Slots :
       /\ inv[i].pc = "done"
       /\ inv[i].response.status = 400
       /\ inv[i].currentLogId = NULL

(***************************************************************************)
(* Store URLs as the connect endpoint handles them.  A URL is a sequence   *)
(* of pieces: a blank, a slash, a protocol prefix, a letter the pattern    *)
(* allows in a shop name, a character it does not allow, and the           *)
(* ".myshopify.com" suffix.                                                *)
(***************************************************************************)
Blank == " "

ShopNameChars == {"a", "b"}

Protocols == {"http://", "https://"}

ShopifySuffix == ".myshopify.com"

\* the shop name of the owner's store
ShopNameOf(u) == IF u = "u1" THEN "a" ELSE "b"

StoreUrl(name) == <<"https://", name, ShopifySuffix>>

\* what a user may type for the store whose shop name is n
UrlInputs(n) ==
  { <<>>,
    <<Blank>>,
    StoreUrl(n),
    StoreUrl(n) \o <<"/">>,
    StoreUrl(n) \o <<"/", "/">>,
    <<Blank>> \o StoreUrl(n) \o <<"/", Blank>>,
    <<"http://", n, ShopifySuffix>>,
    <<n, ShopifySuffix>>,
    <<"https://", "https://", n, ShopifySuffix>>,
    <<"https://", n, "_", ShopifySuffix>>,
    <<"https://", ShopifySuffix>>,
    <<"https://", n, ShopifySuffix, "/", "admin">>,
    <<"https://", n, ".example.com">> }

\* String.prototype.trim
TrimUrl(url) ==
  LET keep == {k \in 1..Len(url) : url[k] # Blank}
  IN IF keep = {} THEN <<>>
     ELSE SubSeq(url, CHOOSE k \in keep : \A j \in keep : k <= j,
                      CHOOSE k \in keep : \A j \in keep : j <= k)

\* .replace(/\/$/, '')
StripTrailingSlash(url) ==
  IF Len(url) > 0 /\ url[Len(url)] = "/" THEN SubSeq(url, 1, Len(url) - 1) ELSE url

\* .replace(/^https?:\/\//, '')
StripProtocol(url) ==
  IF Len(url) > 0 /\ url[1] \in Protocols THEN SubSeq(url, 2, Len(url)) ELSE url

\* variant: any host behind https:// passes
ValidFormatAnyHost(url) == Len(url) >= 2 /\ url[1] = "https://"

\* /^https:\/\/[a-zA-Z0-9\-]+\.myshopify\.com$/
ValidFormat(url) ==
  /\ Len(url) >= 3
  /\ url[1] = "https://"
  /\ url[Len(url)] = ShopifySuffix
  /\ \A k \in 2..(Len(url) - 1) : url[k] \in ShopNameChars

\* normalizeStoreUrl: [ok, url]; ok is FALSE where the function throws
NormalizeStoreUrl(url) ==
  LET cleanUrl == StripProtocol(StripTrailingSlash(TrimUrl(url)))
      finalUrl == <<"https://">> \o cleanUrl
  IN [ok |-> ValidFormat(finalUrl), url |-> finalUrl]

(***************************************************************************)
(* The connect endpoint.                                                   *)
(***************************************************************************)
\* user_id values of a request body and what user_id.trim() makes of them
UserIdInputs == {NULL, "", " ", "u1", "u2", " u1 "}

TrimUserId(s) == CASE s = " " -> "" [] s = " u1 " -> "u1" [] OTHER -> s

\* the three credentials of a request body: all given, or one of them missing
Credentials ==
  {c \in [api_key : {"", "k"}, api_secret : {"", "s"}, access_token : {"", "t"}] :
     Cardinality({f \in DOMAIN c : c[f] = ""}) <= 1}

\* the answers of GET {store}/admin/api/{version}/shop.json as the handler tells them apart
ShopChecks == {"shop", "rejected", "not ok", "not json", "no shop"}

\* the answer, with the owner it is about once the body's user_id has passed its check
ConnectReply(user_id, status, error) ==
  [endpoint |-> "connect",
   user_id |-> IF status \in {405, 500} /\ error # "Failed to save Shopify connection to database"
               THEN "" ELSE IF Truthy(user_id) THEN TrimUserId(user_id) ELSE "",
   status |-> status, success |-> (status = 200)]

\* .upsert({...}, {onConflict: 'user_id'})
UpsertConnection(tbl, u, store_url, t) ==
  IF \E r \in tbl : r.user_id = u
  THEN {IF r.user_id = u
        THEN [r EXCEPT !.store_url = store_url, !.is_active = TRUE,
                       !.connected_at = t, !.last_sync_at = t]
        ELSE r : r \in tbl}
  ELSE tbl \cup {ConnectionRow(u, store_url, TRUE, t, t)}

\* the handler from request to response: the table it leaves and its answer
ConnectResult(tbl, method, hasKey, user_id, store_url, cred, check, dbOk, t) ==
  IF method # "POST"
  THEN [tbl |-> tbl, reply |-> ConnectReply(user_id, 405, "Method not allowed")]
  ELSE IF ~hasKey
  THEN [tbl |-> tbl,
        reply |-> ConnectReply(user_id, 500,
                               "Server misconfiguration: Missing encryption key")]
  ELSE IF ~Truthy(user_id) \/ TrimUserId(user_id) = ""
  THEN [tbl |-> tbl, reply |-> ConnectReply(user_id, 400, "Missing or invalid user_id")]
  ELSE IF store_url = <<>> \/ ~Truthy(cred.api_key) \/ ~Truthy(cred.api_secret)
            \/ ~Truthy(cred.access_token)
  THEN [tbl |-> tbl, reply |-> ConnectReply(user_id, 400, "Missing required fields")]
  ELSE IF ~NormalizeStoreUrl(store_url).ok
  THEN [tbl |-> tbl,
        reply |-> ConnectReply(user_id, 400, "Invalid Shopify store URL format")]
  ELSE IF check = "rejected"
  THEN [tbl |-> tbl,
        reply |-> ConnectReply(user_id, 400, "Failed to connect to Shopify API")]
  ELSE IF check = "not ok"
  THEN [tbl |-> tbl, reply |-> ConnectReply(user_id, 400, "Shopify API error")]
  ELSE IF check = "not json"
  THEN [tbl |-> tbl,
        reply |-> ConnectReply(user_id, 400, "Invalid JSON response from Shopify API")]
  ELSE IF check = "no shop"
  THEN [tbl |-> tbl,
        reply |-> ConnectReply(user_id, 400,
                               "Invalid response from Shopify API: missing shop data")]
  ELSE IF ~dbOk
  THEN [tbl |-> tbl,
        reply |-> ConnectReply(user_id, 500,
                               "Failed to save Shopify connection to database")]
  ELSE [tbl |-> UpsertConnection(tbl, TrimUserId(user_id),
                                 NormalizeStoreUrl(store_url).url, t),
        reply |-> ConnectReply(user_id, 200, NULL)]

\* the inputs that still matter once the earlier checks of the handler have passed
Connect ==
  /\ \E method \in Methods, hasKey \in BOOLEAN, user_id \in UserIdInputs :
       \E store_url \in IF method = "POST" /\ hasKey /\ Truthy(user_id)
                           /\ TrimUserId(user_id) # ""
                        THEN UrlInputs(ShopNameOf(TrimUserId(user_id))) ELSE {<<>>} :
         \E cred \in IF store_url # <<>> THEN Credentials
                     ELSE {[api_key |-> "", api_secret |-> "", access_token |-> ""]} :
           \E check \in IF Truthy(cred.api_key) /\ Truthy(cred.api_secret)
                           /\ Truthy(cred.access_token) /\ NormalizeStoreUrl(store_url).ok
                        THEN ShopChecks ELSE {"shop"} :
             \E dbOk \in IF check = "shop" THEN BOOLEAN ELSE {TRUE} :
               LET res == ConnectResult(shopify_connections, method, hasKey, user_id,
                                        store_url, cred, check, dbOk, now)
               IN /\ shopify_connections' = res.tbl
                  /\ reply' = res.reply
  /\ UNCHANGED <<now, connection, orders, products, sync_logs, nextLog, inv, client, shop,
                 cron, fleet>>

(***************************************************************************)
(* The legacy client-side service: connectShopify with its immediate order *)
(* fetch, and the order upsert it shares with fetchAllOrders.              *)
(***************************************************************************)
\* /^https:\/\/([a-zA-Z0-9][a-zA-Z0-9\-]*\.myshopify\.com)\/?$/
ValidateStoreURL(url) ==
  LET body == StripTrailingSlash(url)
  IN /\ Len(body) >= 3
     /\ body[1] = "https://"
     /\ body[Len(body)] = ShopifySuffix
     /\ \A k \in 2..(Len(body) - 1) : body[k] \in ShopNameChars

\* transformShopifyOrder, on the columns the orders rows of this model carry; the
\* columns it does not name take their defaults
TransformShopifyOrder(o, connectionId) ==
  [connection_id |-> connectionId,
   order_id |-> NULL,
   shopify_order_id |-> StringOf(o.id),
   total_price |-> ParseFloat(o.total_price),
   currency |-> o.currency,
   customer_email |-> NULL,
   financial_status |-> o.financial_status,
   fulfillment_status |-> IF Truthy(o.fulfillment_status) THEN o.fulfillment_status
                          ELSE "unfulfilled",
   order_date |-> o.created_at,
   customer |-> NoCustomer,
   line_items |-> <<>>]

\* the columns transformShopifyOrder names
TransformedColumns ==
  {"connection_id", "shopify_order_id", "total_price", "currency", "financial_status",
   "fulfillment_status", "order_date"}

\* variant: the conflict target also names the connection
ShopifyOrderIdConflictsPerConnection(tbl, row) ==
  {r \in tbl : r.shopify_order_id = row.shopify_order_id
               /\ r.connection_id = row.connection_id}

\* the rows an upserted row conflicts with: onConflict 'shopify_order_id'
ShopifyOrderIdConflicts(tbl, row) == {r \in tbl : r.shopify_order_id = row.shopify_order_id}

\* INSERT ... ON CONFLICT (shopify_order_id) DO UPDATE SET <the named columns>
UpsertByShopifyOrderId(tbl, row) ==
  IF ShopifyOrderIdConflicts(tbl, row) = {}
  THEN tbl \cup {WithId(row, NewRowId(tbl))}
  ELSE (tbl \ ShopifyOrderIdConflicts(tbl, row))
         \cup {[c \in DOMAIN r |-> IF c \in TransformedColumns THEN row[c] ELSE r[c]]
                 : r \in ShopifyOrderIdConflicts(tbl, row)}

\* the batch; the statement fails as a whole, and its error is not looked at, when the
\* table has no unique constraint on shopify_order_id alone or the store rejects it
RECURSIVE UpsertAllByShopifyOrderId(_, _)
UpsertAllByShopifyOrderId(tbl, rows) ==
  IF rows = <<>> THEN tbl
  ELSE UpsertAllByShopifyOrderId(UpsertByShopifyOrderId(tbl, Head(rows)), Tail(rows))

StoreOrdersLegacy(tbl, connectionId, fetched, dbOk) ==
  IF dbOk
  THEN UpsertAllByShopifyOrderId(tbl, [k \in 1..Len(fetched) |->
                                         TransformShopifyOrder(fetched[k], connectionId)])
  ELSE tbl

LegacyReply(name, user_id, success, error) ==
  [endpoint |-> name, user_id |-> user_id, status |-> IF success THEN 200 ELSE 0,
   success |-> success]

\* variant: no unique index on user_id, an INSERT never collides
UserIdNeverTaken(tbl, u) == FALSE

\* uniq_shopify_connections_user_id rejects an INSERT for an owner who has a row
UserIdTaken(tbl, u) == \E r \in tbl : r.user_id = u

\* connectShopify of the client service: validate, test the credentials, update the
\* owner's active row or insert a new one, then fetchAndStoreOrders
ConnectShopify(u) ==
  \E store_url \in UrlInputs(ShopNameOf(u)), tested \in BOOLEAN, dbOk \in BOOLEAN :
    LET active == ActiveConnections(shopify_connections, u)
        row == ConnectionRow(u, store_url, TRUE, now, now)
        fails(error) ==
          /\ reply' = LegacyReply("connectShopify", u, FALSE, error)
          /\ UNCHANGED <<shopify_connections, orders>>
    IN /\ IF ~ValidateStoreURL(store_url) THEN fails("Invalid store URL format")
          ELSE IF ~tested THEN fails("Connection test failed")
          ELSE IF ~dbOk THEN fails("Database error")
          ELSE IF active = {} /\ UserIdTaken(shopify_connections, u)
          THEN fails("Failed to store connection")
          ELSE /\ \E fetched \in OrderPages(shop), stored \in BOOLEAN :
                    orders' = StoreOrdersLegacy(orders, ConnIdOf(u), fetched, stored)
               /\ shopify_connections' =
                    IF active = {}
                    THEN shopify_connections \cup {row}
                    ELSE (shopify_connections \ active) \cup {row}
               /\ reply' = LegacyReply("connectShopify", u, TRUE, NULL)
       /\ UNCHANGED <<now, connection, products, sync_logs, nextLog, inv, client, shop,
                      cron, fleet>>

\* deactivations a behaviour goes through at most
MaxCleanups == 2

\* deleteUserConnection for one of the owners, with the cleanup_user_data trigger
DisconnectOwner(u) ==
  /\ nextLog < MaxCleanups
  /\ IF ActiveConnections(shopify_connections, u) = {}
     THEN /\ reply' = LegacyReply("deleteUserConnection", u, FALSE,
                                  "No active connection found")
          /\ UNCHANGED <<shopify_connections, orders, sync_logs, nextLog>>
     ELSE \E conn \in ActiveConnections(shopify_connections, u) :
            /\ orders' = DeleteByConnection(orders, conn.id)
            /\ sync_logs' = DeleteByConnection(sync_logs, conn.id)
                              \cup {CleanupLogRow(LogName[nextLog + 1], conn.id, u, now)}
            /\ nextLog' = nextLog + 1
            /\ shopify_connections' =
                 (shopify_connections \ {conn}) \cup {[conn EXCEPT !.is_active = FALSE]}
            /\ reply' = LegacyReply("deleteUserConnection", u, TRUE, NULL)
  /\ UNCHANGED <<now, connection, products, inv, client, shop, cron, fleet>>

InitConnect ==
  /\ now = 0
  /\ connection = [id |-> ConnId, user_id |-> UserId, is_active |-> TRUE,
                   last_sync_at |-> NoTime]
  /\ orders = {}
  /\ products = {}
  /\ sync_logs = {}
  /\ nextLog = 0
  /\ inv = [i \in Slots |-> IdleInv]
  /\ client = IdleClient
  /\ shop = {1001}
  /\ cron = IdleCron
  /\ shopify_connections = {}
  /\ fleet = IdleFleet
  /\ reply = NoReply

\* connect, reconnect and disconnect through the endpoint and the client service
NextConnect ==
  \/ Connect
  \/ \E u \in Owners : ConnectShopify(u)
  \/ \E u \in Owners : DisconnectOwner(u)

SpecConnect == InitConnect /\ [][NextConnect]_vars

\* the setup page's path: the endpoint, with time passing
NextSetup ==
  \/ Tick
  \/ Connect
  \/ \E u \in Owners : DisconnectOwner(u)

SpecSetup == InitConnect /\ [][NextSetup]_vars

(***************************************************************************)
(* C25: after any sequence of connects through the endpoint, connects      *)
(* through the client service and disconnects, every owner has at most one *)
(* connection row, hence at most one active one; and when the last of them *)
(* was a connect that reported success, its owner's row is active.         *)
(***************************************************************************)
C25_OneConnectionPerOwner ==
  /\ \A u \in Owners :
       /\ Cardinality({r \in shopify_connections : r.user_id = u}) <= 1
       /\ Cardinality(ActiveConnections(shopify_connections, u)) <= 1
  /\ (reply.endpoint \in {"connect", "connectShopify"} /\ reply.success) =>
       ActiveConnections(shopify_connections, reply.user_id) # {}

\* the first owner connected, disconnected and connected again through the endpoint
\* while the second owner stays disconnected
C25_Witness ==
  /\ reply.endpoint = "connect"
  /\ reply.success
  /\ reply.user_id = "u1"
  /\ nextLog = 2
  /\ \E r \in sync_logs : r.sync_type = "cleanup" /\ r.connection_id = ConnIdOf("u1")
  /\ \E r \in shopify_connections : r.user_id = "u2" /\ ~r.is_active

(***************************************************************************)
(* C26: a connect request that is answered with success leaves its owner   *)
(* an active row whose store_url is "https://", one or more characters of  *)
(* a shop name and ".myshopify.com", with nothing before or after; a       *)
(* connect request answered with anything else leaves the connection       *)
(* table as it was; so every stored store_url has that form.               *)
(***************************************************************************)
C26_ConnectPersistsValidEndpoint ==
  [][LET ShopDomain(url) ==
           /\ Len(url) >= 3
           /\ Head(url) = "https://"
           /\ url[Len(url)] = ".myshopify.com"
           /\ \A k \in 2..(Len(url) - 1) : url[k] \in {"a", "b"}
     IN /\ (reply'.endpoint = "connect"
              /\ <<reply, shopify_connections>>' # <<reply, shopify_connections>>) =>
             IF reply'.success
             THEN \E r \in shopify_connections' :
                    /\ r.user_id = reply'.user_id
                    /\ r.is_active
                    /\ r.connected_at = now
                    /\ ShopDomain(r.store_url)
             ELSE shopify_connections' = shopify_connections
        /\ \A r \in shopify_connections' : ShopDomain(r.store_url)]_vars

\* with the first owner connected, a later connect request of the second owner was
\* refused with 400 and the table holds the first owner's row only
C26_Witness ==
  /\ reply.endpoint = "connect"
  /\ reply.status = 400
  /\ reply.user_id = "u2"
  /\ now = 1
  /\ shopify_connections = {ConnectionRow("u1", <<"https://", "a", ".myshopify.com">>,
                                          TRUE, 0, 0)}

(***************************************************************************)
(* api/shopify/sync-status: the owner's active connection is read, then    *)
(* the orders log of that connection with the greatest started_at; the     *)
(* answer is computed from the two and nothing is written.  Both reads are *)
(* taken as answered by the database.                                      *)
(***************************************************************************)
\* .like('sync_type', 'orders:%') over the sync types the code writes
LikeOrders(sync_type) == sync_type \in {SyncType("manual"), SyncType("auto")}

\* String(lastLog.sync_type || '').split(':')[1] || null
SplitMode(sync_type) ==
  CASE sync_type = "orders:manual" -> "manual"
    [] sync_type = "orders:auto" -> "auto"
    [] OTHER -> NULL

\* variant: ascending order, the oldest orders log is read
LatestOrdersLogsAscending(logs, connection_id) ==
  LET mine == {r \in logs : r.connection_id = connection_id /\ LikeOrders(r.sync_type)}
  IN {r \in mine : \A o \in mine : r.started_at <= o.started_at}

\* .eq('connection_id', id).like(..).order('started_at', {ascending: false}).limit(1):
\* the rows one of which is returned
LatestOrdersLogs(logs, connection_id) ==
  LET mine == {r \in logs : r.connection_id = connection_id /\ LikeOrders(r.sync_type)}
  IN {r \in mine : \A o \in mine : o.started_at <= r.started_at}

SyncStatusReply(user_id, status, last_sync_at, last_sync_mode, last_sync_status, new_orders_count) ==
  [endpoint |-> "sync-status", user_id |-> user_id, status |-> status,
   success |-> (status = 200), last_sync_at |-> last_sync_at,
   last_sync_mode |-> last_sync_mode, last_sync_status |-> last_sync_status,
   new_orders_count |-> new_orders_count]

SyncStatusResults(connections, logs, user_id) ==
  IF ~Truthy(user_id)
  THEN {SyncStatusReply("", 400, NoTime, NULL, NULL, 0)}
  ELSE IF ActiveConnections(connections, user_id) = {}
       THEN {SyncStatusReply(user_id, 200, NoTime, NULL, "idle", 0)}
       ELSE LET conn == CHOOSE c \in ActiveConnections(connections, user_id) : TRUE
                latest == LatestOrdersLogs(logs, conn.id)
            IN IF latest = {}
               THEN {SyncStatusReply(user_id, 200, conn.last_sync_at, NULL, "idle", 0)}
               ELSE {SyncStatusReply(user_id, 200, conn.last_sync_at,
                                     SplitMode(lastLog.sync_type),
                                     IF Truthy(lastLog.status) THEN lastLog.status
                                     ELSE "idle",
                                     lastLog.items_processed)
                       : lastLog \in latest}

SyncStatus ==
  /\ \E user_id \in Owners \cup {""} :
       reply' \in SyncStatusResults(shopify_connections, sync_logs, user_id)
  /\ UNCHANGED <<now, connection, orders, products, sync_logs, nextLog, inv, client, shop,
                 cron, shopify_connections, fleet>>

\* number of sync_logs rows the runs of the status specification may create
MaxStatusLogs == 2

\* one fresh sync-orders invocation for an owner, from request to response
SyncOrdersFresh(u, mode) ==
  /\ nextLog < MaxStatusLogs
  /\ \E conn \in ActiveConnections(shopify_connections, u) :
       \E r \in FreshSyncOrdersResults(DatabaseOf(conn), mode, shop, now) :
         /\ orders' = r.db.orders
         /\ sync_logs' = r.db.sync_logs
         /\ nextLog' = r.db.nextLog
         /\ shopify_connections' = (shopify_connections \ {conn}) \cup {r.db.connection}
         /\ reply' = [endpoint |-> "sync-orders", user_id |-> u,
                      status |-> r.response.status, success |-> (r.response.status = 200)]
  /\ UNCHANGED <<now, connection, products, inv, client, shop, cron, fleet>>

NextStatus ==
  \/ Tick
  \/ \E u \in Owners, mode \in {"manual", "auto"} : SyncOrdersFresh(u, mode)
  \/ \E u \in Owners : DisconnectOwner(u)
  \/ SyncStatus

SpecStatus == InitFleet /\ [][NextStatus]_vars

(***************************************************************************)
(* C27: a status query leaves the connections, orders, products and sync   *)
(* logs as they were; and when the owner it was asked for has an active    *)
(* connection with at least one orders log, the mode, status and item      *)
(* count it reports are those of an orders log of that connection that no  *)
(* other orders log of that connection was started after.                  *)
(***************************************************************************)
C27_StatusIsLatestOrdersLog ==
  [][(reply'.endpoint = "sync-status" /\ reply' # reply) =>
       /\ <<shopify_connections, connection, orders, products, sync_logs>>'
            = <<shopify_connections, connection, orders, products, sync_logs>>
       /\ \A c \in shopify_connections :
            (c.user_id = reply'.user_id /\ c.is_active) =>
              LET mine == {r \in sync_logs : /\ r.connection_id = c.id
                                            /\ r.sync_type \in {"orders:manual",
                                                                "orders:auto"}}
              IN mine # {} =>
                   \E l \in mine :
                     /\ \A o \in mine : o.started_at <= l.started_at
                     /\ l.sync_type = IF reply'.last_sync_mode = "manual"
                                      THEN "orders:manual" ELSE "orders:auto"
                     /\ reply'.last_sync_mode \in {"manual", "auto"}
                     /\ reply'.last_sync_status = l.status
                     /\ reply'.new_orders_count = l.items_processed]_vars

\* the first owner ran a manual sync whose upsert failed at time 0 and an auto sync that
\* processed one order at time 1; the status query reports the later one
C27_Witness ==
  /\ reply.endpoint = "sync-status"
  /\ reply.user_id = "u1"
  /\ reply.last_sync_mode = "auto"
  /\ reply.last_sync_status = "success"
  /\ reply.new_orders_count = 1
  /\ \E r \in sync_logs : /\ r.connection_id = ConnIdOf("u1")
                          /\ r.sync_type = "orders:manual"
                          /\ r.started_at = 0
                          /\ r.status = "error"
  /\ \E r \in sync_logs : /\ r.connection_id = ConnIdOf("u1")
                          /\ r.sync_type = "orders:auto"
                          /\ r.started_at = 1

(***************************************************************************)
(* The external store as the order endpoint sees it: its orders in listing *)
(* order, each with the time the store last changed it.  A first-page      *)
(* request with updated_at_min is answered from the orders changed at or   *)
(* after that time, one without it from all of them.                       *)
(***************************************************************************)
StoreOrder(order, updated_at) == [order |-> order, updated_at |-> updated_at]

ShopifyOrdersListing(store, params) ==
  LET kept == SelectSeq(store, LAMBDA e : \/ params.updated_at_min = NoTime
                                          \/ e.updated_at >= params.updated_at_min)
  IN [k \in 1..Len(kept) |-> kept[k].order]

\* two orders, each last changed at any time of the model
SmallStores ==
  {<<StoreOrder(ExtOrder(1001, NULL), f[1]), StoreOrder(ExtOrder(1002, "fulfilled"), f[2])>>
     : f \in [1..2 -> Times]}

\* n orders last changed at time 0
LargeStore(n) == [k \in 1..n |-> StoreOrder(LargeDataset(n)[k], 0)]

\* a run from its fresh request to the answer without cursor, the caller feeding back
\* each cursor and the log id
SyncToCompletion(db, mode, store, t) ==
  RunChain(db, mode, NULL, NULL,
           ShopifyOrdersListing(store, OrderParams(NULL, mode, db.connection.last_sync_at)),
           0, t)

(***************************************************************************)
(* C28: whatever last_sync_at an owner's active connection holds, a manual *)
(* run driven to its last answer leaves an orders row of that connection   *)
(* for every order of the store, for stores of one page and, right after   *)
(* the owner's first connect, for stores of two pages.                     *)
(***************************************************************************)
C28_ManualRunPullsEverything ==
  \A conn \in shopify_connections :
    conn.is_active =>
      /\ \A store \in SmallStores :
           LET chain == SyncToCompletion(DatabaseOf(conn), "manual", store, now)
               last == chain[Len(chain)]
           IN /\ last.response.status = 200
              /\ ~last.response.has_more
              /\ {StringOf(store[k].order.id) : k \in 1..Len(store)}
                   \subseteq {r.order_id : r \in {o \in last.db.orders :
                                                   o.connection_id = conn.id}}
      /\ (orders = {} /\ nextLog = 0 /\ conn.last_sync_at = now
            /\ reply.success /\ reply.user_id = conn.user_id) =>
           \A n \in LargeCounts :
             LET chain == SyncToCompletion(DatabaseOf(conn), "manual", LargeStore(n), now)
                 last == chain[Len(chain)]
             IN /\ Len(chain) = 2
                /\ ~last.response.has_more
                /\ Cardinality({r \in last.db.orders : r.connection_id = conn.id}) = n
                /\ {StringOf(1000 + k) : k \in 1..n}
                     \subseteq {r.order_id : r \in last.db.orders}

\* the first owner's connection carries the last_sync_at of time 1, the orders table is
\* empty, and the store holds orders last changed at time 0: the manual run requests
\* and stores both
C28_Witness ==
  /\ now = 1
  /\ orders = {}
  /\ \E conn \in ActiveConnections(shopify_connections, "u1") :
       /\ conn.last_sync_at = 1
       /\ LET store == <<StoreOrder(ExtOrder(1001, NULL), 0),
                         StoreOrder(ExtOrder(1002, "fulfilled"), 0)>>
              chain == SyncToCompletion(DatabaseOf(conn), "manual", store, now)
          IN /\ Len(chain) = 1
             /\ chain[1].response.processed = 2
             /\ Cardinality(chain[1].db.orders) = 2

(***************************************************************************)
(* A sync-orders invocation that continues a run: the request carries a    *)
(* cursor, a log id or both, no log row is inserted, and the log row that  *)
(* is read and updated is the one whose id the request names.              *)
(***************************************************************************)
ResumeSyncOrdersResults(db, mode, cursor, sync_log_id, ids, t) ==
  {[db |-> db, response |-> FetchFailureResponse(f)] : f \in FetchFailures}
    \cup {[db |-> [db EXCEPT !.sync_logs =
                     UpdateById(db.sync_logs, sync_log_id, UpsertErrorPatch("upsert failed", t))],
           response |-> ErrorResponse(500, "DB Upsert failed")]
            : page \in {pg \in OrderPages(ids) : Len(pg) > 0}}
    \cup {RunPage(db, mode, cursor, sync_log_id, page, link, t)
            : page \in OrderPages(ids), link \in LinkHeaders}

SyncOrdersResume(u, mode, cursor, sync_log_id) ==
  /\ ~IsFresh(cursor, sync_log_id)
  /\ \E conn \in ActiveConnections(shopify_connections, u) :
       \E r \in ResumeSyncOrdersResults(DatabaseOf(conn), mode, cursor, sync_log_id, shop, now) :
         /\ \A l \in r.db.sync_logs : l.items_processed <= MaxItems
         /\ orders' = r.db.orders
         /\ sync_logs' = r.db.sync_logs
         /\ nextLog' = r.db.nextLog
         /\ shopify_connections' = (shopify_connections \ {conn}) \cup {r.db.connection}
         /\ reply' = [endpoint |-> "sync-orders", user_id |-> u,
                      status |-> r.response.status, success |-> (r.response.status = 200)]
  /\ UNCHANGED <<now, connection, products, inv, client, shop, cron, fleet>>

\* both owners connected, their stores holding the same external ids
InitIsolation ==
  /\ now = 0
  /\ connection = [id |-> ConnId, user_id |-> UserId, is_active |-> TRUE,
                   last_sync_at |-> NoTime]
  /\ orders = {}
  /\ products = {}
  /\ sync_logs = {}
  /\ nextLog = 0
  /\ inv = [i \in Slots |-> IdleInv]
  /\ client = IdleClient
  /\ shop = {1001}
  /\ cron = IdleCron
  /\ shopify_connections = {ConnectionRow(u, StoreUrlOf(u), TRUE, 0, NoTime) : u \in Owners}
  /\ fleet = IdleFleet
  /\ reply = NoReply

\* number of runs the second owner starts
MaxIsolationLogs == 1

\* the second owner starts a run
OtherOwnerStartsRun(mode) ==
  /\ nextLog < MaxIsolationLogs
  /\ SyncOrdersFresh("u2", mode)

\* the second owner starts a run, the first owner sends continuation requests
NextIsolation ==
  \/ \E mode \in {"manual", "auto"} : OtherOwnerStartsRun(mode)
  \/ \E mode \in {"manual", "auto"}, cursor \in Cursors \cup {NULL},
        sync_log_id \in {LogName[k] : k \in 1..MaxIsolationLogs} \cup {NULL} :
       SyncOrdersResume("u1", mode, cursor, sync_log_id)

SpecIsolation == InitIsolation /\ [][NextIsolation]_vars

(***************************************************************************)
(* C29: a sync-orders invocation for an owner leaves every orders row and  *)
(* every sync log row of another owner's connection as it was, and every   *)
(* row it adds carries the id of that owner's connection.                  *)
(***************************************************************************)
C29_SyncTouchesOwnRowsOnly ==
  [][(reply'.endpoint = "sync-orders" /\ <<orders, sync_logs>>' # <<orders, sync_logs>>) =>
       /\ \A r \in orders : r.connection_id # ConnIdOf(reply'.user_id) => r \in orders'
       /\ \A r \in sync_logs : r.connection_id # ConnIdOf(reply'.user_id) => r \in sync_logs'
       /\ \A r \in orders' \ orders : r.connection_id = ConnIdOf(reply'.user_id)
       /\ \A r \in sync_logs' \ sync_logs : r.connection_id = ConnIdOf(reply'.user_id)]_vars

(***************************************************************************)
(* AutoSyncService.triggerManualSync as the setup page calls it after a    *)
(* successful connect: the owner's active connection is looked up and      *)
(* syncConnection posts to sync-orders?mode=auto until no cursor comes     *)
(* back.                                                                   *)
(***************************************************************************)
TriggerManualSync(db, store, t) == SyncToCompletion(db, "auto", store, t)

(***************************************************************************)
(* C30: after a connect that answered success, the initial sync run to its *)
(* last answer leaves an orders row of the new connection for every order  *)
(* the store held before the connect.                                      *)
(***************************************************************************)
C30_InitialSyncPullsHistory ==
  (reply.endpoint = "connect" /\ reply.success) =>
    \A conn \in ActiveConnections(shopify_connections, reply.user_id) :
      \A store \in SmallStores :
        (\A k \in 1..Len(store) : store[k].updated_at < conn.connected_at) =>
          LET chain == TriggerManualSync(DatabaseOf(conn), store, now)
              last == chain[Len(chain)]
          IN {StringOf(store[k].order.id) : k \in 1..Len(store)}
               \subseteq {r.order_id : r \in {o \in last.db.orders :
                                               o.connection_id = conn.id}}

(***************************************************************************)
(* validateStoreUrl of the order endpoint: the pattern test on the URL     *)
(* without its trailing slash.  The order handler declares it and never    *)
(* calls it; the handler strips the trailing slash of the stored URL and   *)
(* goes on to the log insert and the request.                              *)
(***************************************************************************)
ValidateStoreUrl(url) == ValidFormat(StripTrailingSlash(url))

(***************************************************************************)
(* The earlier setup page: the typed URL is stored as typed when it        *)
(* contains ".myshopify.com" and the connection test passes; the row is    *)
(* inserted, which the unique index on user_id refuses for an owner who    *)
(* has a row.                                                              *)
(***************************************************************************)
\* what a user may type into the earlier setup page for the shop name n
OldSetupUrlInputs(n) ==
  {StoreUrl(n), <<n, ShopifySuffix>>, <<"https://", n, ".example.com">>}

\* storeUrl.includes('.myshopify.com')
IncludesShopifySuffix(url) == \E k \in 1..Len(url) : url[k] = ShopifySuffix

OldSetupConnect(u) ==
  /\ \E url \in OldSetupUrlInputs(ShopNameOf(u)), connected \in BOOLEAN :
       IF IncludesShopifySuffix(url) /\ connected /\ ~UserIdTaken(shopify_connections, u)
       THEN /\ shopify_connections' =
                 shopify_connections \cup {ConnectionRow(u, url, TRUE, now, NoTime)}
            /\ reply' = [endpoint |-> "setup", user_id |-> u, status |-> 200,
                         success |-> TRUE]
       ELSE /\ reply' = [endpoint |-> "setup", user_id |-> u, status |-> 0,
                         success |-> FALSE]
            /\ UNCHANGED shopify_connections
  /\ UNCHANGED <<now, connection, orders, products, sync_logs, nextLog, inv, client, shop,
                 cron, fleet>>

\* connections made through the earlier setup page, then fresh order syncs
NextOldSetup ==
  \/ Tick
  \/ \E u \in Owners : OldSetupConnect(u)
  \/ \E u \in Owners, mode \in {"manual", "auto"} : SyncOrdersFresh(u, mode)

SpecOldSetup == InitConnect /\ [][NextOldSetup]_vars

(***************************************************************************)
(* C31: a fresh sync-orders invocation for an owner whose stored store_url *)
(* does not match the shop-domain pattern is rejected, creates no sync log *)
(* row and stores no order.                                                *)
(***************************************************************************)
C31_FreshRunValidatesEndpoint ==
  [][(reply'.endpoint = "sync-orders" /\ <<reply, sync_logs>>' # <<reply, sync_logs>>) =>
       \A conn \in ActiveConnections(shopify_connections, reply'.user_id) :
         ~ValidateStoreUrl(conn.store_url) =>
           /\ reply'.status # 200
           /\ sync_logs' = sync_logs
           /\ orders' = orders]_vars

C33_OneLogEntryPerRun ==
  (/\ NoInvocationRunning
   /\ orders = {}
   /\ \A r \in sync_logs : r.status = "success" /\ r.items_processed = 0) =>
    \A n \in LargeCounts, mode \in {"auto", "manual"} :
      LET chain == RunChain(Database, mode, NULL, NULL, LargeDataset(n), 0, now)
          id == chain[1].response.sync_log_id
      IN /\ Len(chain) = 2
         /\ Truthy(id)
         /\ \A r \in sync_logs : r.id # id
         /\ \A k \in 1..Len(chain) :
              /\ chain[k].response.sync_log_id = id
              /\ chain[k].db.nextLog = nextLog + 1
              /\ {r \in chain[k].db.sync_logs : r.id # id} = sync_logs
              /\ Cardinality({r \in chain[k].db.sync_logs : r.id = id}) = 1
              /\ \A r \in chain[k].db.sync_logs :
                   r.id = id =>
                     /\ r.sync_type = SyncType(mode)
                     /\ r.items_processed = IF k = 1 THEN PageLimit ELSE n

\* a run that found no order has left its log row; a run of 300 orders started now
\* takes two invocations and adds one more row
C33_Witness ==
  /\ NoInvocationRunning
  /\ orders = {}
  /\ Cardinality(sync_logs) = 1
  /\ \A r \in sync_logs : r.status = "success"
  /\ LET chain == RunChain(Database, "auto", NULL, NULL, LargeDataset(300), 0, now)
     IN /\ Len(chain) = 2
        /\ Cardinality(chain[2].db.sync_logs) = 2
        /\ chain[2].response.sync_log_id = "L2"

(***************************************************************************)
(* Two order runs of one owner that overlap: each run has its own caller,  *)
(* which sends the fresh request and then feeds back the cursor and the    *)
(* log id of each answer.  The store holds a fixed dataset and serves it   *)
(* StorePageSize orders to a page.                                         *)
(***************************************************************************)
Overlap == {"a", "b"}

\* number of sync_logs rows the two runs may create
MaxOverlapLogs == 2

\* orders the modelled store puts on one page
StorePageSize == 1

OverlapStore ==
  <<StoreOrder(ExtOrder(1001, NULL), 0), StoreOrder(ExtOrder(1002, "fulfilled"), 0)>>

\* the answer of the store to a request: the first page of the listing the filters
\* select, or the page the cursor stands for
StorePageOf(store, params) ==
  LET listing == ShopifyOrdersListing(store, params)
      first == IF Len(listing) < StorePageSize THEN Len(listing) ELSE StorePageSize
      last == IF Len(listing) < 2 * StorePageSize THEN Len(listing) ELSE 2 * StorePageSize
  IN IF Truthy(params.page_info)
     THEN [orders |-> SubSeq(listing, first + 1, last), link |-> NoLink]
     ELSE [orders |-> SubSeq(listing, 1, first),
           link |-> IF Len(listing) > first
                    THEN <<LinkPart("next", "c1")>> ELSE NoLink]

\* the caller of run i sends its next request
OverlapRequest(i) ==
  /\ \/ /\ inv[i].pc = "idle"
        /\ \E mode \in {"auto", "manual"} :
             BeginWithin(MaxOverlapLogs, i, "direct", mode, NULL, NULL)
     \/ /\ inv[i].pc = "done"
        /\ inv[i].response.status = 200
        /\ Truthy(inv[i].response.next_cursor)
        /\ BeginWithin(MaxOverlapLogs, i, "direct", "auto", inv[i].response.next_cursor,
                       inv[i].response.sync_log_id)
  /\ UNCHANGED <<now, connection, orders, products, client, shop, cron, shopify_connections,
                 fleet, reply>>

\* step 4 against the fixed dataset
FetchFromStore(i) ==
  /\ inv[i].pc = "fetch"
  /\ LET answer == StorePageOf(OverlapStore, inv[i].params)
     IN inv' = [inv EXCEPT ![i].pc = "upsert", ![i].page = answer.orders,
                           ![i].nextCursor = NextCursor(answer.link)]
  /\ UNCHANGED <<now, connection, orders, products, sync_logs, nextLog, client, shop, cron,
                 shopify_connections, fleet, reply>>

\* the orders table before the runs: empty, or an earlier state of the first order
InitialOrders == {{}, {WithId(MapOrder(ConnId, ExtOrder(1001, "fulfilled")), 1)}}

InitOverlap ==
  /\ now = 0
  /\ connection \in {[id |-> ConnId, user_id |-> UserId, is_active |-> TRUE, last_sync_at |-> t]
                       : t \in {NoTime, 0}}
  /\ orders \in InitialOrders
  /\ products = {}
  /\ sync_logs = {}
  /\ nextLog = 0
  /\ inv = [i \in Overlap |-> IdleInv]
  /\ client = IdleClient
  /\ shop = {1001, 1002}
  /\ cron = IdleCron
  /\ shopify_connections = {}
  /\ fleet = IdleFleet
  /\ reply = NoReply

NextOverlap ==
  \/ Tick
  \/ \E i \in Overlap : OverlapRequest(i)
  \/ \E i \in Overlap : FetchFails(i)
  \/ \E i \in Overlap : FetchFromStore(i)
  \/ \E i \in Overlap : Upsert(i)
  \/ \E i \in Overlap : ReadLog(i)
  \/ \E i \in Overlap : UpdateLog(i)
  \/ \E i \in Overlap : Finish(i)

SpecOverlap == InitOverlap /\ [][NextOverlap]_vars

\* one run over the store with nothing else going on: at most two pages
RunOverStore(db, mode, store, t) ==
  LET p1 == StorePageOf(store, OrderParams(NULL, mode, db.connection.last_sync_at))
      r1 == RunPage(db, mode, NULL, NULL, p1.orders, p1.link, t)
      p2 == StorePageOf(store, OrderParams(r1.response.next_cursor, mode,
                                           r1.db.connection.last_sync_at))
  IN IF Truthy(r1.response.next_cursor)
     THEN RunPage(r1.db, mode, r1.response.next_cursor, r1.response.sync_log_id,
                  p2.orders, p2.link, t)
     ELSE r1

MaxResumeLogs == 2

NextResume ==
  \/ ClientStart
  \/ \E i \in Slots : ClientSendWithin(MaxResumeLogs, i)
  \/ \E i \in Slots : ClientFetchThrows(i)
  \/ ClientCatch
  \/ \E i \in Slots : FetchFails(i)
  \/ \E i \in Slots : FetchPage(i)
  \/ \E i \in Slots : Upsert(i)
  \/ \E i \in Slots : ReadLog(i)
  \/ \E i \in Slots : UpdateLog(i)
  \/ \E i \in Slots : Finish(i)

SpecResume == Init /\ [][NextResume]_vars

(***************************************************************************)
(* C35: a sync log row of an interrupted run keeps its cursor and count,   *)
(* and the first request of the next triggered sync, when such a row with  *)
(* a saved cursor is there, carries that cursor and that row's id and      *)
(* inserts no new log row.                                                 *)
(***************************************************************************)
C35_NextSyncResumes ==
  [][\A i \in Slots :
       (/\ client.pc = "loop"
        /\ client.nextCursor = NULL
        /\ inv[i].pc \in {"idle", "done"}
        /\ inv'[i].pc = "fetch"
        /\ inv'[i].caller = "client"
        /\ \E l \in sync_logs : l.status # "success" /\ Truthy(l.cursor_state)) =>
         \E l \in sync_logs :
           /\ l.status # "success"
           /\ Truthy(l.cursor_state)
           /\ inv'[i].currentLogId = l.id
           /\ inv'[i].params.page_info = l.cursor_state
           /\ sync_logs' = sync_logs]_vars

(***************************************************************************)
(* Auto-mode runs against a store that changes while they run.  In this    *)
(* specification shop holds the store's orders in listing order, each with *)
(* the time of its last change; an order is created or changed at the      *)
(* current time, and a request is answered from the store as it is when    *)
(* the request arrives.                                                    *)
(***************************************************************************)
\* number of sync_logs rows the auto runs may create
MaxStoreLogs == 2

\* number of orders the changing store may hold
MaxStoreOrders == 2

\* the store creates an order or changes the fulfillment of one
StoreUpdate ==
  /\ \/ /\ Len(shop) < MaxStoreOrders
        /\ shop' = Append(shop, StoreOrder(ExtOrder(1001 + Len(shop), NULL), now))
     \/ \E k \in 1..Len(shop) :
          /\ shop[k].order.fulfillment_status = NULL
          /\ shop' = [shop EXCEPT ![k] = StoreOrder(ExtOrder(shop[k].order.id, "fulfilled"),
                                                    now)]
  /\ UNCHANGED <<now, connection, orders, products, sync_logs, nextLog, inv, client, cron,
                 shopify_connections, fleet, reply>>

\* a trigger starts an auto run: every page of the store fits one answer
AutoRequest(i) ==
  /\ BeginWithin(MaxStoreLogs, i, "direct", "auto", NULL, NULL)
  /\ UNCHANGED <<now, connection, orders, products, client, shop, cron, shopify_connections,
                 fleet, reply>>

\* step 4 against the store as it is now
FetchListing(i) ==
  /\ inv[i].pc = "fetch"
  /\ inv' = [inv EXCEPT ![i].pc = "upsert",
                        ![i].page = ShopifyOrdersListing(shop, inv[i].params),
                        ![i].nextCursor = NextCursor(NoLink)]
  /\ UNCHANGED <<now, connection, orders, products, sync_logs, nextLog, client, shop, cron,
                 shopify_connections, fleet, reply>>

InitStore ==
  /\ now = 0
  /\ connection = [id |-> ConnId, user_id |-> UserId, is_active |-> TRUE,
                   last_sync_at |-> NoTime]
  /\ orders = {}
  /\ products = {}
  /\ sync_logs = {}
  /\ nextLog = 0
  /\ inv = [i \in Slots |-> IdleInv]
  /\ client = IdleClient
  /\ shop = <<StoreOrder(ExtOrder(1001, NULL), 0)>>
  /\ cron = IdleCron
  /\ shopify_connections = {}
  /\ fleet = IdleFleet
  /\ reply = NoReply

NextStore ==
  \/ Tick
  \/ StoreUpdate
  \/ \E i \in Slots : AutoRequest(i)
  \/ \E i \in Slots : FetchFails(i)
  \/ \E i \in Slots : FetchListing(i)
  \/ \E i \in Slots : Upsert(i)
  \/ \E i \in Slots : ReadLog(i)
  \/ \E i \in Slots : UpdateLog(i)
  \/ \E i \in Slots : Finish(i)

SpecStore == InitStore /\ [][NextStore]_vars

(***************************************************************************)
(* C36: whenever no invocation is running, an auto run started now and     *)
(* driven to completion leaves every order of the store persisted in its   *)
(* latest state: no change made at the store, also one made while an       *)
(* earlier run was in progress, has fallen out of reach of the auto runs.  *)
(***************************************************************************)
C36_NoUpdateLost ==
  NoInvocationRunning =>
    LET chain == SyncToCompletion(Database, "auto", shop, now)
        last == chain[Len(chain)]
    IN \A k \in 1..Len(shop) :
         \E r \in last.db.orders : WithoutId(r) = MapOrder(connection.id, shop[k].order)

(***************************************************************************)
(* Product sync against a store's product list.  The provider pages the    *)
(* list: every answer but the last carries a next link, the last carries   *)
(* none; a page's fetch may fail.                                          *)
(***************************************************************************)
StoreProductIds == {501, 502, 503}

\* page sizes the provider may serve the list with
ProductPageSizes == {1, 2}

ProductList(S) == [k \in 1..Len(SeqOfIds(S)) |-> ExtProduct(SeqOfIds(S)[k])]

\* the chain of answers for a product list served in pages of the given size
RECURSIVE PagedProducts(_, _)
PagedProducts(list, size) ==
  IF Len(list) <= size
  THEN <<[ok |-> TRUE, status |-> 200, products |-> list, link |-> NoLink]>>
  ELSE <<[ok |-> TRUE, status |-> 200, products |-> SubSeq(list, 1, size),
          link |-> <<LinkPart("next", "c1")>>]>>
         \o PagedProducts(SubSeq(list, size + 1, Len(list)), size)

\* the chain up to page k, whose fetch fails
FailingAt(chain, k) ==
  SubSeq(chain, 1, k - 1) \o <<[ok |-> FALSE, status |-> 500, products |-> <<>>, link |-> NoLink]>>

StoreProductChains ==
  UNION { {PagedProducts(ProductList(S), size)}
            \cup {FailingAt(PagedProducts(ProductList(S), size), k)
                    : k \in 1..Len(PagedProducts(ProductList(S), size))}
          : S \in SUBSET StoreProductIds, size \in ProductPageSizes }

\* one POST /api/shopify/sync-products, from request to response
SyncProductsRequest ==
  \E chain \in StoreProductChains, dbOk \in BOOLEAN :
    LET res == SyncProductsResult(products, connection, chain, dbOk, now)
    IN /\ products' = res.products
       /\ reply' = [endpoint |-> "sync-products", user_id |-> connection.user_id,
                    status |-> res.response.status, success |-> res.response.success,
                    items_processed |-> res.response.items_processed,
                    pages |-> Len(chain)]
       /\ UNCHANGED <<now, connection, orders, sync_logs, nextLog, inv, client, shop, cron,
                      shopify_connections, fleet>>

NextProducts ==
  \/ Tick
  \/ SyncProductsRequest

SpecProducts == InitConnect /\ [][NextProducts]_vars

\* products of all pages of a chain, counted page by page
RECURSIVE TotalFetched(_)
TotalFetched(chain) ==
  IF chain = <<>> THEN 0 ELSE Len(Head(chain).products) + TotalFetched(Tail(chain))

MaxSameLogRuns == 1

\* continuations are accepted while the log's count is below this
MaxSameLogItems == 3

\* a request arrives: a first request, or the continuation some invocation returned
SameLogRequest(i) ==
  /\ \/ BeginWithin(MaxSameLogRuns, i, "direct", "auto", NULL, NULL)
     \/ \E j \in Overlap :
          /\ inv[j].pc = "done"
          /\ inv[j].response.status = 200
          /\ Truthy(inv[j].response.next_cursor)
          /\ ReadItemsProcessed(sync_logs, inv[j].response.sync_log_id) < MaxSameLogItems
          /\ BeginWithin(MaxSameLogRuns, i, "direct", "auto", inv[j].response.next_cursor,
                         inv[j].response.sync_log_id)
  /\ UNCHANGED <<now, connection, orders, products, client, shop, cron, shopify_connections,
                 fleet, reply>>

NextSameLog ==
  \/ Tick
  \/ \E i \in Overlap : SameLogRequest(i)
  \/ \E i \in Overlap : FetchFails(i)
  \/ \E i \in Overlap : FetchFromStore(i)
  \/ \E i \in Overlap : Upsert(i)
  \/ \E i \in Overlap : ReadLog(i)
  \/ \E i \in Overlap : UpdateLog(i)
  \/ \E i \in Overlap : Finish(i)

SpecSameLog == InitOverlap /\ [][NextSameLog]_vars

(***************************************************************************)
(* C38: items_processed of a log entry is the total of the records         *)
(* upserted by the invocations that carry its id: every invocation's log   *)
(* update raises the entry's count by exactly the number of records that   *)
(* invocation upserted, also when another invocation with the same log id  *)
(* is running at the same time.                                            *)
(***************************************************************************)
C38_LogCountsEveryUpsert ==
  [][\A i \in Overlap :
       (inv[i].pc = "updlog" /\ inv'[i].pc = "lastsync" /\ HasLog(inv[i].currentLogId))
         => ReadItemsProcessed(sync_logs', inv[i].currentLogId)
              = ReadItemsProcessed(sync_logs, inv[i].currentLogId) + inv[i].newItemsCount]_vars

(***************************************************************************)
(* The browser loop under fair scheduling: a request that was sent is      *)
(* answered by the store or fails, every handler step that is due is       *)
(* taken, and the loop sends its next request and runs its catch block.    *)
(* Whether a new trigger starts the loop again is left open.               *)
(***************************************************************************)
FetchReturns == \E i \in Slots : FetchFails(i) \/ FetchPage(i)

HandlerStep == \E i \in Slots : Upsert(i) \/ ReadLog(i) \/ UpdateLog(i) \/ Finish(i)

LoopStep == ClientCatch \/ \E i \in Slots : ClientSendWithin(MaxResumeLogs, i)

\* a trigger starts the loop while a further run may still create its log row
TriggerSync ==
  /\ nextLog < MaxResumeLogs
  /\ ClientStart

NextTriggered ==
  \/ TriggerSync
  \/ \E i \in Slots : ClientSendWithin(MaxResumeLogs, i)
  \/ \E i \in Slots : ClientFetchThrows(i)
  \/ ClientCatch
  \/ \E i \in Slots : FetchFails(i)
  \/ \E i \in Slots : FetchPage(i)
  \/ \E i \in Slots : Upsert(i)
  \/ \E i \in Slots : ReadLog(i)
  \/ \E i \in Slots : UpdateLog(i)
  \/ \E i \in Slots : Finish(i)

FairResume ==
  /\ Init
  /\ [][NextTriggered]_vars
  /\ WF_vars(FetchReturns)
  /\ WF_vars(HandlerStep)
  /\ WF_vars(LoopStep)

(***************************************************************************)
(* C39: every log entry a run created reaches a terminal status once the   *)
(* caller's loop of that run has ended: when the loop is over and no       *)
(* invocation is running, an entry that exists is success or error then or *)
(* becomes so later, also when the first page's fetch failed before the    *)
(* log id was returned to the caller.                                      *)
(***************************************************************************)
C39_LogsReachTerminal ==
  \A n \in 1..MaxResumeLogs :
    (HasLog(LogName[n]) /\ client.pc = "idle" /\ NoInvocationRunning)
      ~> (HasLog(LogName[n]) /\ LogRow(LogName[n]).status \in {"success", "error"})

(***************************************************************************)
(* C40: a deactivated connection owns no orders row: once the disconnect   *)
(* has completed, no row of the orders table carries the connection's id,  *)
(* also when an invocation that loaded the connection before the           *)
(* disconnect performs its upsert after it.                                *)
(***************************************************************************)
C40_DisconnectedOwnsNoOrders ==
  ~connection.is_active => {r \in orders : r.connection_id = connection.id} = {}

====
